---- MODULE Spec2Model ----
(***************************************************************************)
(* fast-set: transactional u32 indexes (Tree, NodeSetIndex, OneIndex,      *)
(* FlatSetIndex) with a Base + Log overlay, and the interner of shared     *)
(* bitmap payloads.                                                        *)
(*                                                                         *)
(* Rust's Option<T> is modelled as a set with at most one element:         *)
(* None is {} and Some(x) is {x}.  A hash map is a function over the key   *)
(* universe whose value is an Option: {} when the key is absent.           *)
(***************************************************************************)
EXTENDS Integers, Sequences, FiniteSets, TLC

\* Node identifiers are 1..MaxNode.
MaxNode == 3

Nodes == 1..MaxNode

None == {}

Some(x) == {x}

Unwrap(o) == CHOOSE x \in o : TRUE

\* Items stored in the sets of an index are 1..MaxItem.
MaxItem == 2

Items == 1..MaxItem

\* Keys of OneIndex and FlatSetIndex are 0..MaxKey.
MaxKey == 1

Keys == 0..MaxKey

\* Values stored in a OneIndex (any type with equality).
Values == {"a", "b"}

\* Threads using the interner are 1..MaxThread.
MaxThread == 2

Threads == 1..MaxThread

\* Heap addresses available to Box::new are 1..MaxAlloc.
MaxAlloc == 2

Addrs == 1..MaxAlloc

\* Interned handles alive or being created at one time.
MaxHandles == 3

\* Calls (log writes and applies) made in one behaviour.
MaxSteps == 6

VARIABLES
    tree, log,          \* Tree and the TreeLog being built against it
    nsi, nsiLog,        \* NodeSetIndex and its NodeSetIndexLog
    detached,           \* Option<DetachedSubtree> held by the caller
    one, oneLog,        \* OneIndex and its OneIndexLog
    flat, flatLog,      \* FlatSetIndex and its FlatSetIndexLog
    reference,          \* plain map key -> set given the same FlatSetIndex calls
    index,              \* the index exercised in a behaviour of SpecOverlay
    heap,               \* Box<Bitmap> payloads: address -> Option<contents>
    table,              \* INTERNER: Key (address) -> Option<count>
    gate,               \* holder of the INTERNER mutex: Option<thread>
    held,               \* held[t][a]: handles to address a owned by thread t
    threads,            \* per thread: position, argument, lookup result
    DEFAULT_INTERNED,   \* the static handle: None until its initializer has run
    steps               \* calls made so far

treeVars == <<tree, log>>

nsiVars == <<nsi, nsiLog, detached>>

oneVars == <<one, oneLog>>

flatVars == <<flat, flatLog, reference>>

internVars == <<heap, table, gate, held, threads, DEFAULT_INTERNED>>

indexVars == <<tree, log, nsi, nsiLog, detached, one, oneLog, flat, flatLog,
               reference>>

vars == <<tree, log, nsi, nsiLog, detached, one, oneLog, flat, flatLog,
          reference, index, heap, table, gate, held, threads,
          DEFAULT_INTERNED, steps>>

(***************************************************************************)
(* u32based/tree.rs: Tree                                                  *)
(***************************************************************************)

\* Tree::new / Tree::default
Tree_new ==
    [children    |-> [n \in Nodes |-> None],
     cycles      |-> {},
     descendants |-> [n \in Nodes |-> None],
     parents     |-> [n \in Nodes |-> None]]

\* TreeLog::new / TreeLog::default
TreeLog_new ==
    [children    |-> [n \in Nodes |-> None],
     cycles      |-> None,
     descendants |-> [n \in Nodes |-> None],
     parents     |-> [n \in Nodes |-> None]]

\* Tree::children: the stored set, or the shared empty set.
Tree_children(t, node) ==
    IF t.children[node] = None THEN {} ELSE Unwrap(t.children[node])

\* Tree::descendants
Tree_descendants(t, node) ==
    IF t.descendants[node] = None THEN {} ELSE Unwrap(t.descendants[node])

\* Tree::parent: Option<u32>
Tree_parent(t, child) == t.parents[child]

\* Tree::has_cycle
Tree_has_cycle(t, node) == node \in t.cycles

(***************************************************************************)
(* u32based/tree.rs: TreeLog reads                                         *)
(***************************************************************************)

\* TreeLog::children
TreeLog_children(l, base, node) ==
    IF l.children[node] # None THEN Unwrap(l.children[node])
    ELSE Tree_children(base, node)

\* TreeLog::descendants
TreeLog_descendants(l, base, node) ==
    IF l.descendants[node] # None THEN Unwrap(l.descendants[node])
    ELSE Tree_descendants(base, node)

\* TreeLog::parent: Option<u32>
TreeLog_parent(l, base, child) ==
    IF l.parents[child] # None THEN Unwrap(l.parents[child])
    ELSE Tree_parent(base, child)

\* TreeLog::cycles
TreeLog_cycles(l, base) ==
    IF l.cycles # None THEN Unwrap(l.cycles) ELSE base.cycles

\* TreeLog::has_cycle
TreeLog_has_cycle(l, base, node) == node \in TreeLog_cycles(l, base)

(***************************************************************************)
(* u32based/tree.rs: TreeLog copy-on-write accessors.  Each returns the    *)
(* log with the entry materialised and then set to the given value.        *)
(***************************************************************************)

\* children_mut followed by a write of v
SetChildren(l, node, v) == [l EXCEPT !.children[node] = Some(v)]

\* descendants_mut followed by a write of v
SetDescendants(l, node, v) == [l EXCEPT !.descendants[node] = Some(v)]

\* parent_mut followed by a write of v (v is an Option<u32>)
SetParent(l, node, v) == [l EXCEPT !.parents[node] = Some(v)]

\* a walk that never finds its node among the visited ones
visited_stop_never(visited, p) == FALSE

\* `if !visited.insert(p) { break; }` (`seen.contains(&node)` in
\* detect_and_mark_cycles): the walk stops on a node it has visited
visited_stop(visited, p) == p \in visited

\* the loop shared by the ancestor walks of remove_impl, reparent_subtree,
\* detect_and_mark_cycles and of NodeSetIndexLog insert, remove and
\* insert_subtree: TRUE when it exits within fuel iterations
RECURSIVE walk_exits(_, _, _, _, _)
walk_exits(l, base, cur, visited, fuel) ==
    IF cur = None THEN TRUE
    ELSE IF visited_stop(visited, Unwrap(cur)) THEN TRUE
    ELSE IF fuel = 0 THEN FALSE
    ELSE walk_exits(l, base, TreeLog_parent(l, base, Unwrap(cur)),
                    visited \cup {Unwrap(cur)}, fuel - 1)

\* step 4 of remove_impl: shrink the descendants of every ancestor
RECURSIVE ShrinkAncestors(_, _, _, _, _, _)
ShrinkAncestors(l, base, cur, node, desc, visited) ==
    IF cur = None THEN [log |-> l, visited |-> visited]
    ELSE LET p == Unwrap(cur) IN
         IF p \in visited THEN [log |-> l, visited |-> visited]
         ELSE LET d  == TreeLog_descendants(l, base, p)
                  l2 == SetDescendants(l, p, (d \ {node}) \ desc)
              IN ShrinkAncestors(l2, base, TreeLog_parent(l2, base, p),
                                 node, desc, visited \cup {p})

\* TreeLog::remove_impl
remove_impl(l, base, node, visited) ==
    LET desc == TreeLog_descendants(l, base, node)
        chil == TreeLog_children(l, base, node)
        \* 1. take the sets of node, leaving empty ones in the log
        l1 == SetChildren(SetDescendants(l, node, {}), node, {})
        \* 2. record and evacuate every node of the subtree
        rest == [id \in desc |->
                    [children    |-> TreeLog_children(l1, base, id),
                     descendants |-> TreeLog_descendants(l1, base, id),
                     parent      |-> TreeLog_parent(l1, base, id)]]
        l2 == [l1 EXCEPT
                 !.children    = [n \in Nodes |->
                                    IF n \in desc THEN Some({}) ELSE @[n]],
                 !.descendants = [n \in Nodes |->
                                    IF n \in desc THEN Some({}) ELSE @[n]],
                 !.parents     = [n \in Nodes |->
                                    IF n \in desc THEN Some(None) ELSE @[n]]]
        \* 3. detach from the former parent
        par == TreeLog_parent(l2, base, node)
        l3 == IF par # None
              THEN SetChildren(l2, Unwrap(par),
                               TreeLog_children(l2, base, Unwrap(par)) \ {node})
              ELSE l2
        \* 4. shrink the ancestors' descendants
        w  == ShrinkAncestors(l3, base, TreeLog_parent(l3, base, node),
                              node, desc, visited)
        \* 5. record node itself; parent_mut(node).take()
        own == [children    |-> chil,
                descendants |-> desc,
                parent      |-> TreeLog_parent(w.log, base, node)]
        l5 == SetParent(w.log, node, None)
    IN [log     |-> l5,
        visited |-> w.visited,
        removed |-> [id \in desc \cup {node} |->
                        IF id = node THEN own ELSE rest[id]]]

\* the ancestor walk of reparent_subtree stopping at the new parent
ExtendAncestors_one_level(l, base, cur, root, add, visited) ==
    IF cur = None THEN l
    ELSE SetDescendants(l, Unwrap(cur),
           TreeLog_descendants(l, base, Unwrap(cur)) \cup add \cup {root})

\* the ancestor walk of reparent_subtree
RECURSIVE ExtendAncestors(_, _, _, _, _, _)
ExtendAncestors(l, base, cur, root, add, visited) ==
    IF cur = None THEN l
    ELSE LET p == Unwrap(cur) IN
         IF p \in visited THEN l
         ELSE LET d  == TreeLog_descendants(l, base, p)
                  l2 == SetDescendants(l, p, d \cup add \cup {root})
              IN ExtendAncestors(l2, base, TreeLog_parent(l2, base, p),
                                 root, add, visited \cup {p})

\* TreeLog::reparent_subtree restoring the entries of the root only
reparent_subtree_root_only(l, base, new_parent, root, removed) ==
    LET l1 == [l EXCEPT !.parents[root] = Some(new_parent)]
        l2 == IF new_parent # None
              THEN SetChildren(l1, Unwrap(new_parent),
                     TreeLog_children(l1, base, Unwrap(new_parent)) \cup {root})
              ELSE l1
        item == IF root \in DOMAIN removed THEN removed[root]
                ELSE [children |-> {}, descendants |-> {}, parent |-> None]
        l3 == ExtendAncestors(l2, base, new_parent, root, item.descendants, {})
    IN [l3 EXCEPT !.children[root] = Some(item.children),
                  !.descendants[root] = Some(item.descendants)]

\* TreeLog::reparent_subtree
reparent_subtree(l, base, new_parent, root, removed) ==
    LET l1 == [l EXCEPT !.parents[root] = Some(new_parent)]
        l2 == IF new_parent # None
              THEN SetChildren(l1, Unwrap(new_parent),
                     TreeLog_children(l1, base, Unwrap(new_parent)) \cup {root})
              ELSE l1
        item == IF root \in DOMAIN removed THEN removed[root]
                ELSE [children |-> {}, descendants |-> {}, parent |-> None]
        others == (DOMAIN removed) \ {root}
        l3 == ExtendAncestors(l2, base, new_parent, root, item.descendants, {})
    IN [l3 EXCEPT
          !.children    = [n \in Nodes |->
                             IF n = root THEN Some(item.children)
                             ELSE IF n \in others THEN Some(removed[n].children)
                             ELSE @[n]],
          !.descendants = [n \in Nodes |->
                             IF n = root THEN Some(item.descendants)
                             ELSE IF n \in others THEN Some(removed[n].descendants)
                             ELSE @[n]],
          !.parents     = [n \in Nodes |->
                             IF n \in others THEN Some(removed[n].parent)
                             ELSE @[n]]]

\* index of the first occurrence of x in the path
position(path, x) == CHOOSE i \in 1..Len(path) :
                        /\ path[i] = x
                        /\ \A j \in 1..(i - 1) : path[j] # x

\* the walk of detect_and_mark_cycles: the nodes it marks
RECURSIVE MarkWalk(_, _, _, _)
MarkWalk(l, base, cur, path) ==
    IF cur = None THEN {}
    ELSE LET node == Unwrap(cur)
             seen == {path[i] : i \in 1..Len(path)}
         IN IF node \in seen
            THEN {path[i] : i \in position(path, node)..Len(path)} \cup {node}
            ELSE MarkWalk(l, base, TreeLog_parent(l, base, node),
                          Append(path, node))

\* TreeLog::detect_and_mark_cycles
detect_and_mark_cycles(l, base, start) ==
    LET marks == MarkWalk(l, base, Some(start), <<>>)
    IN IF marks = {} THEN l
       ELSE [l EXCEPT !.cycles = Some(TreeLog_cycles(l, base) \cup marks)]

\* TreeLog::insert refusing a parent taken from the subtree of the child
TreeLog_insert_outside_subtree(l, base, parent, child) ==
    IF TreeLog_parent(l, base, child) = parent THEN l
    ELSE IF /\ parent # None
            /\ Unwrap(parent) \in {child} \cup TreeLog_descendants(l, base, child)
         THEN l
    ELSE LET r  == remove_impl(l, base, child, {})
             l2 == reparent_subtree(r.log, base, parent, child, r.removed)
         IN detect_and_mark_cycles(l2, base, child)

\* TreeLog::insert
TreeLog_insert(l, base, parent, child) ==
    IF TreeLog_parent(l, base, child) = parent THEN l
    ELSE LET r  == remove_impl(l, base, child, {})
             l2 == reparent_subtree(r.log, base, parent, child, r.removed)
         IN detect_and_mark_cycles(l2, base, child)

\* the loop of TreeLog::remove over the keys of log.parents
RECURSIVE DetectAll(_, _, _)
DetectAll(l, base, keys) ==
    IF keys = {} THEN l
    ELSE LET k == CHOOSE k \in keys : TRUE
         IN DetectAll(detect_and_mark_cycles(l, base, k), base, keys \ {k})

\* TreeLog::remove without the clearing of the cycles set
TreeLog_remove_keeps_marks(l, base, node) ==
    LET r == remove_impl(l, base, node, {})
    IN DetectAll(r.log, base, {n \in Nodes : r.log.parents[n] # None})

\* TreeLog::remove
TreeLog_remove(l, base, node) ==
    LET r  == remove_impl(l, base, node, {})
        l2 == [r.log EXCEPT !.cycles = Some({})]
    IN DetectAll(l2, base, {n \in Nodes : l2.parents[n] # None})

(***************************************************************************)
(* u32based/tree.rs: Tree::apply                                           *)
(***************************************************************************)

\* apply_bitmap that keeps a base entry the log has emptied
apply_bitmap_entry_keeps_emptied(target, b) ==
    IF b = None THEN target
    ELSE IF target # None /\ Unwrap(b) = {} THEN target
    ELSE IF target # None /\ Unwrap(b) # Unwrap(target) THEN b
    ELSE IF target = None /\ Unwrap(b) # {} THEN b
    ELSE target

\* apply_bitmap: one entry of the fold
apply_bitmap_entry(target, b) ==
    IF b = None THEN target                        \* key not in the log
    ELSE IF target # None /\ Unwrap(b) = {} THEN None
    ELSE IF target # None /\ Unwrap(b) # Unwrap(target) THEN b
    ELSE IF target = None /\ Unwrap(b) # {} THEN b
    ELSE target

\* apply_bitmap: the arms of the match that set changed = true
apply_bitmap_changed(target, b) ==
    /\ b # None
    /\ \/ target # None /\ Unwrap(b) = {}
       \/ target # None /\ Unwrap(b) # Unwrap(target)
       \/ target = None /\ Unwrap(b) # {}

\* apply_bitmap: the folded map and the changed flag
apply_bitmap(target, source) ==
    [map     |-> [k \in DOMAIN target |->
                     apply_bitmap_entry(target[k], source[k])],
     changed |-> \E k \in DOMAIN target :
                     apply_bitmap_changed(target[k], source[k])]

\* the parents loop of Tree::apply with a flag raised by every entry
apply_parent_changed_on_any_entry(old, new_parent) == new_parent # None

\* the parents loop of Tree::apply: the changed flag of one entry
apply_parent_changed(old, new_parent) ==
    IF new_parent = None THEN FALSE                \* key not in the log
    ELSE IF Unwrap(new_parent) # None
         THEN old = None       \* insert(..).is_none() || parents[child] != p
         ELSE old # None       \* remove(..).is_some()

\* the cycles step of Tree::apply reading a missing override as an empty set
apply_cycles_or_default(cycles, c) == IF c = None THEN {} ELSE Unwrap(c)

\* the cycles step of Tree::apply: if let Some(c) = log.cycles
apply_cycles(cycles, c) ==
    IF c # None /\ cycles # Unwrap(c) THEN Unwrap(c) ELSE cycles

\* Tree::apply
Tree_apply(t, l) ==
    LET cyc  == apply_cycles(t.cycles, l.cycles)
        par  == [n \in Nodes |->
                    IF l.parents[n] = None THEN t.parents[n]
                    ELSE Unwrap(l.parents[n])]
        pch  == \E n \in Nodes : apply_parent_changed(t.parents[n], l.parents[n])
        ch   == apply_bitmap(t.children, l.children)
        de   == apply_bitmap(t.descendants, l.descendants)
    IN [tree    |-> [children |-> ch.map, cycles |-> cyc,
                     descendants |-> de.map, parents |-> par],
        changed |-> (cyc # t.cycles) \/ pch \/ ch.changed \/ de.changed]

(***************************************************************************)
(* u32based/tree.rs: depth and the ancestor iterators.  The loops are      *)
(* unrolled with MaxNode hops of fuel: a walk that is still running after  *)
(* MaxNode hops has revisited a node and never stops ("diverges").         *)
(***************************************************************************)

\* the while loop of Tree::depth
RECURSIVE Tree_depth_loop(_, _, _, _)
Tree_depth_loop(t, cur, d, fuel) ==
    IF cur = None THEN [kind |-> "Ok", value |-> d]
    ELSE IF Tree_has_cycle(t, Unwrap(cur))
         THEN [kind |-> "CycleError", value |-> Unwrap(cur)]
    ELSE IF fuel = 0 THEN [kind |-> "diverges", value |-> d]
    ELSE Tree_depth_loop(t, Tree_parent(t, Unwrap(cur)), d + 1, fuel - 1)

\* Tree::depth with the counter started at one
Tree_depth_from_one(t, node) == Tree_depth_loop(t, Some(node), 1, MaxNode)

\* Tree::depth
Tree_depth(t, node) == Tree_depth_loop(t, Some(node), 0, MaxNode)

\* the while loop of TreeLog::depth
RECURSIVE TreeLog_depth_loop(_, _, _, _, _)
TreeLog_depth_loop(l, base, cur, depth, fuel) ==
    IF cur = None THEN [kind |-> "Ok", value |-> depth]
    ELSE IF Unwrap(cur) \in TreeLog_cycles(l, base)
         THEN [kind |-> "CycleError", value |-> Unwrap(cur)]
    ELSE IF fuel = 0 THEN [kind |-> "diverges", value |-> depth]
    ELSE TreeLog_depth_loop(l, base, TreeLog_parent(l, base, Unwrap(cur)),
                            depth + 1, fuel - 1)

\* TreeLog::depth
TreeLog_depth(l, base, node) == TreeLog_depth_loop(l, base, Some(node), 0, MaxNode)

\* TreeAncestorIter::next called until it returns None: the items yielded
RECURSIVE TreeAncestorIter(_, _, _, _)
TreeAncestorIter(t, child, items, fuel) ==
    IF child = None THEN [items |-> items, done |-> TRUE]
    ELSE IF fuel = 0 THEN [items |-> items, done |-> FALSE]
    ELSE LET n == Unwrap(child)
         IN TreeAncestorIter(t,
                IF n \in t.cycles THEN None ELSE t.parents[n],
                Append(items, n), fuel - 1)

\* Tree::ancestors_with_self
Tree_ancestors_with_self(t, node) ==
    TreeAncestorIter(t, Some(node), <<>>, MaxNode + 1)

\* Tree::ancestors: the iterator advanced once
Tree_ancestors(t, node) ==
    LET it == Tree_ancestors_with_self(t, node)
    IN [items |-> Tail(it.items), done |-> it.done]

\* TreeLogAncestorIter::next called until it returns None
RECURSIVE TreeLogAncestorIter(_, _, _, _, _)
TreeLogAncestorIter(l, base, child, items, fuel) ==
    IF child = None THEN [items |-> items, done |-> TRUE]
    ELSE IF fuel = 0 THEN [items |-> items, done |-> FALSE]
    ELSE LET n == Unwrap(child)
         IN TreeLogAncestorIter(l, base,
                IF n \in TreeLog_cycles(l, base) THEN None
                ELSE TreeLog_parent(l, base, n),
                Append(items, n), fuel - 1)

\* TreeLog::ancestors_with_self
TreeLog_ancestors_with_self(l, base, node) ==
    TreeLogAncestorIter(l, base, Some(node), <<>>, MaxNode + 1)

\* TreeLog::ancestors
TreeLog_ancestors(l, base, node) ==
    LET it == TreeLog_ancestors_with_self(l, base, node)
    IN [items |-> Tail(it.items), done |-> it.done]

(***************************************************************************)
(* u32based/node_set_index.rs                                              *)
(***************************************************************************)

\* NodeSetIndex::new
NodeSetIndex_new ==
    [direct_items  |-> [n \in Nodes |-> None],
     subtree_items |-> [n \in Nodes |-> None]]

\* NodeSetIndexLog::new
NodeSetIndexLog_new ==
    [direct_items  |-> [n \in Nodes |-> None],
     subtree_items |-> [n \in Nodes |-> None]]

\* NodeSetIndex::direct_items
NodeSetIndex_direct_items(b, node) ==
    IF b.direct_items[node] = None THEN {} ELSE Unwrap(b.direct_items[node])

\* NodeSetIndex::subtree_items
NodeSetIndex_subtree_items(b, node) ==
    IF b.subtree_items[node] = None THEN {} ELSE Unwrap(b.subtree_items[node])

\* NodeSetIndexLog::direct_items
NodeSetIndexLog_direct_items(l, b, node) ==
    IF l.direct_items[node] # None THEN Unwrap(l.direct_items[node])
    ELSE NodeSetIndex_direct_items(b, node)

\* NodeSetIndexLog::subtree_items
NodeSetIndexLog_subtree_items(l, b, node) ==
    IF l.subtree_items[node] # None THEN Unwrap(l.subtree_items[node])
    ELSE NodeSetIndex_subtree_items(b, node)

\* the stack loop of NodeSetIndexLog::insert
RECURSIVE insert_loop(_, _, _, _, _, _, _)
insert_loop(l, b, base_tree, log_tree, stack, visited, item) ==
    IF stack = <<>> THEN l
    ELSE LET current == stack[Len(stack)]
             popped  == SubSeq(stack, 1, Len(stack) - 1)
         IN IF current \in visited
            THEN insert_loop(l, b, base_tree, log_tree, popped, visited, item)
            ELSE LET l2 == [l EXCEPT !.subtree_items[current] =
                              Some(NodeSetIndexLog_subtree_items(l, b, current)
                                   \cup {item})]
                     parent == TreeLog_parent(log_tree, base_tree, current)
                     pushed == IF parent # None
                               THEN Append(popped, Unwrap(parent)) ELSE popped
                 IN insert_loop(l2, b, base_tree, log_tree, pushed,
                                visited \cup {current}, item)

\* NodeSetIndexLog::insert
NodeSetIndexLog_insert(l, b, base_tree, log_tree, node, item) ==
    LET direct == NodeSetIndexLog_direct_items(l, b, node)
        l1 == [l EXCEPT !.direct_items[node] = Some(direct \cup {item})]
    IN IF item \notin direct
       THEN insert_loop(l1, b, base_tree, log_tree, <<node>>, {}, item)
       ELSE l1

\* the stack loop of NodeSetIndexLog::remove
RECURSIVE remove_loop(_, _, _, _, _, _, _)
remove_loop(l, b, base_tree, log_tree, stack, visited, item) ==
    IF stack = <<>> THEN l
    ELSE LET current == stack[Len(stack)]
             popped  == SubSeq(stack, 1, Len(stack) - 1)
         IN IF current \in visited
            THEN remove_loop(l, b, base_tree, log_tree, popped, visited, item)
            ELSE LET l2 == [l EXCEPT !.subtree_items[current] =
                              Some(NodeSetIndexLog_subtree_items(l, b, current)
                                   \ {item})]
                     vis2 == visited \cup {current}
                     parent == TreeLog_parent(log_tree, base_tree, current)
                     pushed == IF parent # None /\ Unwrap(parent) \notin vis2
                               THEN Append(popped, Unwrap(parent)) ELSE popped
                 IN remove_loop(l2, b, base_tree, log_tree, pushed, vis2, item)

\* NodeSetIndexLog::remove clearing the item at the node only
NodeSetIndexLog_remove_at_node_only(l, b, base_tree, log_tree, node, item) ==
    LET direct == NodeSetIndexLog_direct_items(l, b, node)
        l1 == [l EXCEPT !.direct_items[node] = Some(direct \ {item})]
    IN IF item \notin direct THEN l1
       ELSE [l1 EXCEPT !.subtree_items[node] =
               Some(NodeSetIndexLog_subtree_items(l1, b, node) \ {item})]

\* NodeSetIndexLog::remove
NodeSetIndexLog_remove(l, b, base_tree, log_tree, node, item) ==
    LET direct == NodeSetIndexLog_direct_items(l, b, node)
        l1 == [l EXCEPT !.direct_items[node] = Some(direct \ {item})]
    IN IF item \notin direct THEN l1
       ELSE remove_loop(l1, b, base_tree, log_tree, <<node>>, {}, item)

\* NodeSetIndexLog::remove_subtree recording the entry of the base in
\* preference to the entry of the log
NodeSetIndexLog_remove_subtree_base_first(l, b, base_tree, log_tree, root) ==
    LET nodes == {root} \cup TreeLog_descendants(log_tree, base_tree, root)
        take(lmap, bmap, id) ==
            IF id \notin nodes THEN None
            ELSE IF bmap[id] # None THEN bmap[id]
            ELSE lmap[id]
    IN [log  |-> [direct_items  |-> [id \in Nodes |->
                        IF id \in nodes THEN None ELSE l.direct_items[id]],
                  subtree_items |-> [id \in Nodes |->
                        IF id \in nodes THEN None ELSE l.subtree_items[id]]],
        data |-> [root    |-> root,
                  direct  |-> [id \in Nodes |->
                                 take(l.direct_items, b.direct_items, id)],
                  subtree |-> [id \in Nodes |->
                                 take(l.subtree_items, b.subtree_items, id)]]]

\* NodeSetIndexLog::remove_subtree: the log afterwards and the record
NodeSetIndexLog_remove_subtree(l, b, base_tree, log_tree, root) ==
    LET nodes == {root} \cup TreeLog_descendants(log_tree, base_tree, root)
        take(lmap, bmap, id) ==
            IF id \notin nodes THEN None
            ELSE IF lmap[id] # None THEN lmap[id]
            ELSE bmap[id]
    IN [log  |-> [direct_items  |-> [id \in Nodes |->
                        IF id \in nodes THEN None ELSE l.direct_items[id]],
                  subtree_items |-> [id \in Nodes |->
                        IF id \in nodes THEN None ELSE l.subtree_items[id]]],
        data |-> [root    |-> root,
                  direct  |-> [id \in Nodes |->
                                 take(l.direct_items, b.direct_items, id)],
                  subtree |-> [id \in Nodes |->
                                 take(l.subtree_items, b.subtree_items, id)]]]

\* step 3 of NodeSetIndexLog::insert_subtree: push the items up the ancestors
RECURSIVE insert_subtree_loop(_, _, _, _, _, _, _)
insert_subtree_loop(l, b, base_tree, log_tree, cur, seen, subtree_items) ==
    IF cur = None THEN l
    ELSE LET ancestor == Unwrap(cur)
         IN IF ancestor \in seen THEN l
            ELSE LET l2 == [l EXCEPT !.subtree_items[ancestor] =
                              Some(NodeSetIndexLog_subtree_items(l, b, ancestor)
                                   \cup subtree_items)]
                 IN insert_subtree_loop(l2, b, base_tree, log_tree,
                        TreeLog_parent(log_tree, base_tree, ancestor),
                        seen \cup {ancestor}, subtree_items)

\* NodeSetIndexLog::insert_subtree without step 3, the push up the ancestors
NodeSetIndexLog_insert_subtree_restores_only(l, b, base_tree, log_tree, data) ==
    [direct_items  |-> [id \in Nodes |->
          IF data.direct[id] # None THEN data.direct[id]
          ELSE l.direct_items[id]],
     subtree_items |-> [id \in Nodes |->
          IF data.subtree[id] # None THEN data.subtree[id]
          ELSE l.subtree_items[id]]]

\* NodeSetIndexLog::insert_subtree
NodeSetIndexLog_insert_subtree(l, b, base_tree, log_tree, data) ==
    LET l1 == [direct_items  |-> [id \in Nodes |->
                    IF data.direct[id] # None THEN data.direct[id]
                    ELSE l.direct_items[id]],
               subtree_items |-> [id \in Nodes |->
                    IF data.subtree[id] # None THEN data.subtree[id]
                    ELSE l.subtree_items[id]]]
        subtree_items == IF l1.subtree_items[data.root] # None
                         THEN Unwrap(l1.subtree_items[data.root]) ELSE {}
    IN insert_subtree_loop(l1, b, base_tree, log_tree,
                           TreeLog_parent(log_tree, base_tree, data.root),
                           {}, subtree_items)

\* apply_map of NodeSetIndex::apply: one entry of the fold
apply_map_entry(target, b) ==
    IF b = None THEN target                        \* key not in the log
    ELSE IF target # None /\ Unwrap(b) = {} THEN None
    ELSE IF target # None /\ Unwrap(b) # Unwrap(target) THEN b
    ELSE IF target = None /\ Unwrap(b) # {} THEN b
    ELSE target

\* apply_map of NodeSetIndex::apply: the arms that set changed = true
apply_map_changed(target, b) ==
    /\ b # None
    /\ \/ target # None /\ Unwrap(b) = {}
       \/ target # None /\ Unwrap(b) # Unwrap(target)
       \/ target = None /\ Unwrap(b) # {}

\* apply_map of NodeSetIndex::apply
apply_map(target, source) ==
    [map     |-> [k \in DOMAIN target |->
                     apply_map_entry(target[k], source[k])],
     changed |-> \E k \in DOMAIN target :
                     apply_map_changed(target[k], source[k])]

\* NodeSetIndex::apply
NodeSetIndex_apply(b, l) ==
    LET d == apply_map(b.direct_items, l.direct_items)
        s == apply_map(b.subtree_items, l.subtree_items)
    IN [index   |-> [direct_items |-> d.map, subtree_items |-> s.map],
        changed |-> d.changed \/ s.changed]

(***************************************************************************)
(* u32based/one_index.rs.  data is the backing vector (key k is element    *)
(* k + 1 of the sequence), each slot an Option<V>.                         *)
(***************************************************************************)

\* OneIndex::new
OneIndex_new == [data |-> <<>>, len |-> 0]

\* OneIndexLog::new
OneIndexLog_new == [k \in Keys |-> None]

\* OneIndex::get
OneIndex_get(o, k) == IF k < Len(o.data) THEN o.data[k + 1] ELSE None

\* OneIndex::len
OneIndex_len(o) == o.len

\* OneIndexLog::get
OneIndexLog_get(l, base, k) ==
    IF l[k] # None THEN Unwrap(l[k]) ELSE OneIndex_get(base, k)

\* OneIndexLog::insert
OneIndexLog_insert(l, base, k, value) ==
    LET new == Some(value)
    IN IF l[k] = None
       THEN IF k >= Len(base.data) \/ base.data[k + 1] # new
            THEN [l EXCEPT ![k] = Some(new)]
            ELSE l
       ELSE [l EXCEPT ![k] = Some(new)]

\* OneIndexLog::remove
OneIndexLog_remove(l, base, k) ==
    IF l[k] = None
    THEN IF k < Len(base.data) THEN [l EXCEPT ![k] = Some(None)] ELSE l
    ELSE [l EXCEPT ![k] = Some(None)]

\* the largest of a non-empty set of numbers
Max(S) == CHOOSE x \in S : \A y \in S : y <= x

\* the Some arm of OneIndex::apply with a flag raised by every write
slot_changed_by_any_write(slot, new) == TRUE

\* the Some arm of OneIndex::apply: *slot != new
slot_changed(slot, new) == slot # new

\* new_len of OneIndex::apply taken as the largest key, not the key + 1
apply_new_len_largest_key(l) ==
    LET somes == {k \in Keys : l[k] # None /\ Unwrap(l[k]) # None}
    IN IF somes = {} THEN 0 ELSE Max(somes)

\* OneIndex::apply: new_len, the largest key with a Some override plus one,
\* or 0 (unwrap_or_default)
apply_new_len(l) ==
    LET somes == {k \in Keys : l[k] # None /\ Unwrap(l[k]) # None}
    IN IF somes = {} THEN 0 ELSE Max({k + 1 : k \in somes})

\* OneIndex::apply: the backing vector after resize_with(new_len, || None)
apply_resize(o, l) ==
    IF Len(o.data) < apply_new_len(l)
    THEN [i \in 1..apply_new_len(l) |->
             IF i <= Len(o.data) THEN o.data[i] ELSE None]
    ELSE o.data

\* the Some arm of OneIndex::apply counting every changed slot as filled
slot_filled_on_any_change(slot, new) == slot # new

\* the Some arm of OneIndex::apply: len += 1 under *slot != new and
\* slot.is_none()
slot_filled(slot, new) == slot # new /\ slot = None

\* OneIndex::apply
OneIndex_apply(o, l) ==
    LET somes   == {k \in Keys : l[k] # None /\ Unwrap(l[k]) # None}
        resized == apply_resize(o, l)
        slot(k) == IF l[k] = None THEN resized[k + 1]
                   ELSE Unwrap(l[k])
        data    == [i \in 1..Len(resized) |->
                      IF (i - 1) \in Keys THEN slot(i - 1) ELSE resized[i]]
        filled  == {k \in somes : slot_filled(resized[k + 1], Unwrap(l[k]))}
        cleared == {k \in Keys : /\ l[k] = Some(None)
                                 /\ k < Len(resized)
                                 /\ resized[k + 1] # None}
        changes == \/ \E k \in somes : slot_changed(resized[k + 1], Unwrap(l[k]))
                   \/ cleared # {}
    IN [index   |-> [data |-> data,
                     len  |-> o.len + Cardinality(filled) - Cardinality(cleared)],
        changed |-> changes]

(***************************************************************************)
(* u32based/flat_set_index.rs                                              *)
(***************************************************************************)

\* FlatSetIndex::with_hasher
FlatSetIndex_new == [map |-> [k \in Keys |-> None], none |-> {}]

\* FlatSetIndexLog::with_hasher
FlatSetIndexLog_new == [map |-> [k \in Keys |-> None], none |-> None]

\* FlatSetIndex::get
FlatSetIndex_get(b, k) == IF b.map[k] = None THEN {} ELSE Unwrap(b.map[k])

\* FlatSetIndex::contains
FlatSetIndex_contains(b, k, val) == b.map[k] # None /\ val \in Unwrap(b.map[k])

\* FlatSetIndex::none
FlatSetIndex_none(b) == b.none

\* FlatSetIndex::contains_none
FlatSetIndex_contains_none(b, val) == val \in b.none

\* FlatSetIndexLog::get
FlatSetIndexLog_get(l, base, k) ==
    IF l.map[k] # None THEN Unwrap(l.map[k]) ELSE FlatSetIndex_get(base, k)

\* FlatSetIndexLog::contains
FlatSetIndexLog_contains(l, base, k, val) ==
    IF l.map[k] # None THEN val \in Unwrap(l.map[k])
    ELSE FlatSetIndex_contains(base, k, val)

\* FlatSetIndexLog::none
FlatSetIndexLog_none(l, base) ==
    IF l.none # None THEN Unwrap(l.none) ELSE FlatSetIndex_none(base)

\* FlatSetIndexLog::contains_none
FlatSetIndexLog_contains_none(l, base, val) ==
    IF l.none # None THEN val \in Unwrap(l.none)
    ELSE FlatSetIndex_contains_none(base, val)

\* FlatSetIndexLog::get_mut starting a vacant log entry from an empty set
get_mut_from_empty(l, base, k) ==
    IF l.map[k] # None THEN Unwrap(l.map[k]) ELSE {}

\* FlatSetIndexLog::get_mut: the bucket the write will mutate
get_mut(l, base, k) ==
    IF l.map[k] # None THEN Unwrap(l.map[k]) ELSE FlatSetIndex_get(base, k)

\* FlatSetIndexLog::none_mut
none_mut(l, base) == IF l.none # None THEN Unwrap(l.none) ELSE base.none

\* FlatSetIndexLog::insert
FlatSetIndexLog_insert(l, base, k, val) ==
    [log    |-> [l EXCEPT !.map[k] = Some(get_mut(l, base, k) \cup {val})],
     result |-> val \notin get_mut(l, base, k)]

\* FlatSetIndexLog::remove
FlatSetIndexLog_remove(l, base, k, val) ==
    [log    |-> [l EXCEPT !.map[k] = Some(get_mut(l, base, k) \ {val})],
     result |-> val \in get_mut(l, base, k)]

\* FlatSetIndexLog::union
FlatSetIndexLog_union(l, base, k, rhs) ==
    [l EXCEPT !.map[k] = Some(get_mut(l, base, k) \cup rhs)]

\* FlatSetIndexLog::intersection
FlatSetIndexLog_intersection(l, base, k, rhs) ==
    [l EXCEPT !.map[k] = Some(get_mut(l, base, k) \cap rhs)]

\* FlatSetIndexLog::difference with the operands exchanged
FlatSetIndexLog_difference_reversed(l, base, k, rhs) ==
    [l EXCEPT !.map[k] = Some(rhs \ get_mut(l, base, k))]

\* FlatSetIndexLog::difference
FlatSetIndexLog_difference(l, base, k, rhs) ==
    [l EXCEPT !.map[k] = Some(get_mut(l, base, k) \ rhs)]

\* FlatSetIndexLog::insert_none
FlatSetIndexLog_insert_none(l, base, val) ==
    [log    |-> [l EXCEPT !.none = Some(none_mut(l, base) \cup {val})],
     result |-> val \notin none_mut(l, base)]

\* FlatSetIndexLog::remove_none
FlatSetIndexLog_remove_none(l, base, val) ==
    [log    |-> [l EXCEPT !.none = Some(none_mut(l, base) \ {val})],
     result |-> val \in none_mut(l, base)]

\* FlatSetIndexLog::union_none
FlatSetIndexLog_union_none(l, base, rhs) ==
    [l EXCEPT !.none = Some(none_mut(l, base) \cup rhs)]

\* FlatSetIndexLog::intersection_none
FlatSetIndexLog_intersection_none(l, base, rhs) ==
    [l EXCEPT !.none = Some(none_mut(l, base) \cap rhs)]

\* FlatSetIndexLog::difference_none
FlatSetIndexLog_difference_none(l, base, rhs) ==
    [l EXCEPT !.none = Some(none_mut(l, base) \ rhs)]

\* The reference of a FlatSetIndex: a total map from key to set and a none
\* set, on which each call acts directly.
Reference_new == [map |-> [k \in Keys |-> {}], none |-> {}]

Reference_set(r, k, bucket) == [r EXCEPT !.map[k] = bucket]

Reference_set_none(r, bucket) == [r EXCEPT !.none = bucket]

\* the map loop of FlatSetIndex::apply storing an empty bucket of the log
\* under a key the base does not hold
FlatSetIndex_apply_entry_creates_empty(target, val) ==
    IF val = None THEN target
    ELSE IF target # None
         THEN IF Unwrap(val) = {} THEN None
              ELSE IF Unwrap(target) # Unwrap(val) THEN val
              ELSE target
         ELSE val

\* the map loop of FlatSetIndex::apply without the removal of emptied keys
FlatSetIndex_apply_entry_keeps_emptied(target, val) ==
    IF val = None THEN target
    ELSE IF target # None
         THEN IF Unwrap(val) # {} /\ Unwrap(target) # Unwrap(val) THEN val
              ELSE target
         ELSE IF Unwrap(val) # {} THEN val ELSE target

\* the map loop of FlatSetIndex::apply: one entry
FlatSetIndex_apply_entry(target, val) ==
    IF val = None THEN target                      \* key not in the log
    ELSE IF target # None
         THEN IF Unwrap(val) = {} THEN None
              ELSE IF Unwrap(target) # Unwrap(val) THEN val
              ELSE target
         ELSE IF Unwrap(val) # {} THEN val ELSE target

\* the map loop of FlatSetIndex::apply with a flag raised by every entry
FlatSetIndex_apply_changed_by_any_entry(target, val) == val # None

\* the map loop of FlatSetIndex::apply: the branches that set changed = true
FlatSetIndex_apply_changed(target, val) ==
    /\ val # None
    /\ IF target # None
       THEN Unwrap(val) = {} \/ Unwrap(target) # Unwrap(val)
       ELSE Unwrap(val) # {}

\* FlatSetIndex::apply
FlatSetIndex_apply(b, l) ==
    LET map  == [k \in Keys |-> FlatSetIndex_apply_entry(b.map[k], l.map[k])]
        none == IF l.none # None /\ b.none # Unwrap(l.none)
                THEN Unwrap(l.none) ELSE b.none
    IN [index   |-> [map |-> map, none |-> none],
        changed |-> \/ \E k \in Keys :
                          FlatSetIndex_apply_changed(b.map[k], l.map[k])
                    \/ (l.none # None /\ b.none # Unwrap(l.none))]

(***************************************************************************)
(* interner.rs.  The payload of a handle is a heap cell; INTERNER maps the *)
(* cell's address to the number of handles.  Keys are looked up by the     *)
(* contents of the cell they point to (Hash and Borrow<Bitmap> of Key).    *)
(* RoaringBitmap::optimize changes the representation only, never the      *)
(* contents, and has no counterpart here.                                  *)
(***************************************************************************)

\* width of the hash values kept by the model: the low bits of the u64
HashBits == 8

\* x ^ y on naturals
RECURSIVE Xor(_, _)
Xor(x, y) ==
    IF x = 0 THEN y
    ELSE IF y = 0 THEN x
    ELSE (((x % 2) + (y % 2)) % 2) + 2 * Xor(x \div 2, y \div 2)

\* hash_single: FxHasher over one u32, (0.rotate_left(5) ^ v) * seed, with
\* the low bits 149 of the multiplier 0x517cc1b727220a95
hash_single(v) == (Xor(0, v) * 149) % (2 ^ HashBits)

\* hash_bitmap: the fold of ^ over the values in ascending order
RECURSIVE hash_fold(_, _)
hash_fold(h, b) ==
    IF b = {} THEN h
    ELSE LET v == CHOOSE x \in b : \A y \in b : x <= y
         IN hash_fold(Xor(h, hash_single(v)), b \ {v})

hash_bitmap(b) == hash_fold(0, b)

\* Hash for IRoaringBitmap and for Key: the hash of the payload pointed to
IRoaringBitmap_hash(hp, a) == hash_bitmap(Unwrap(hp[a]))

\* PartialEq for Key and for IRoaringBitmap: addr_eq of the two pointers
Key_eq(a, c) == a = c

\* a lookup that never finds the value
get_key_value_misses(tb, hp, b) == None

\* gate.get_key_value(q): the key whose payload equals b, if any
get_key_value(tb, hp, b) ==
    LET hits == {a \in Addrs : tb[a] # None /\ hp[a] = Some(b)}
    IN IF hits = {} THEN None ELSE Some(CHOOSE a \in hits : TRUE)

\* intern returning the key found without counting the new handle
intern_hit_uncounted(tb, a) == tb

\* intern, on a hit: *gate.get_mut(&key) += 1
intern_hit(tb, a) ==
    IF tb[a] # None THEN [tb EXCEPT ![a] = Some(Unwrap(@) + 1)] ELSE tb

\* intern, on a miss: gate.insert(key, 1)
intern_miss(tb, a) == [tb EXCEPT ![a] = Some(1)]

\* Clone that copies the pointer without counting the new handle
clone_table_uncounted(tb, a) == tb

\* Clone for IRoaringBitmap: the table after the call
clone_table(tb, a) ==
    IF tb[a] # None THEN [tb EXCEPT ![a] = Some(Unwrap(@) + 1)] ELSE tb

\* Drop that decrements but never removes the entry nor frees the payload
drop_handle_leaks(tb, hp, a) ==
    IF tb[a] # None
    THEN [table |-> [tb EXCEPT ![a] = Some(Unwrap(@) - 1)], heap |-> hp]
    ELSE [table |-> tb, heap |-> hp]

\* Drop for IRoaringBitmap: the table and the heap after the call
drop_handle(tb, hp, a) ==
    IF tb[a] # None
    THEN IF Unwrap(tb[a]) - 1 = 0
         THEN [table |-> [tb EXCEPT ![a] = None],
               heap  |-> [hp EXCEPT ![a] = None]]
         ELSE [table |-> [tb EXCEPT ![a] = Some(Unwrap(@) - 1)],
               heap  |-> hp]
    ELSE [table |-> tb, heap |-> hp]

\* a lock that never excludes anybody
lock_free_unguarded(g) == TRUE

\* INTERNER.lock(): the mutex is free
lock_free(g) == g = None

(***************************************************************************)
(* Transactions on a Tree: a log is built against the base by insert and   *)
(* remove calls and folded into it by apply.                               *)
(***************************************************************************)

\* every base and every log freshly constructed
InitFresh ==
    /\ tree = Tree_new /\ log = TreeLog_new
    /\ nsi = NodeSetIndex_new /\ nsiLog = NodeSetIndexLog_new
    /\ detached = None
    /\ one = OneIndex_new /\ oneLog = OneIndexLog_new
    /\ flat = FlatSetIndex_new /\ flatLog = FlatSetIndexLog_new
    /\ reference = Reference_new
    /\ heap = [a \in Addrs |-> None]
    /\ table = [a \in Addrs |-> None]
    /\ gate = None
    /\ held = [t \in Threads |-> [a \in Addrs |-> 0]]
    /\ threads = [t \in Threads |-> [pc |-> "idle", b |-> {}, ptr |-> None]]
    /\ DEFAULT_INTERNED = None
    /\ steps = 0

InitTree == InitFresh /\ index = "Tree"

Step ==
    /\ steps < MaxSteps /\ steps' = steps + 1
    /\ UNCHANGED <<index, internVars>>

Insert(parent, child) ==
    /\ Step
    /\ log' = TreeLog_insert(log, tree, parent, child)
    /\ UNCHANGED <<tree, nsiVars, oneVars, flatVars>>

Remove(node) ==
    /\ Step
    /\ log' = TreeLog_remove(log, tree, node)
    /\ UNCHANGED <<tree, nsiVars, oneVars, flatVars>>

Apply ==
    /\ Step
    /\ tree' = Tree_apply(tree, log).tree
    /\ log' = TreeLog_new
    /\ UNCHANGED <<nsiVars, oneVars, flatVars>>

NextTree ==
    \/ \E child \in Nodes : \E parent \in {None} \cup {Some(p) : p \in Nodes} :
          Insert(parent, child)
    \/ \E node \in Nodes : Remove(node)
    \/ Apply

SpecTree == InitTree /\ [][NextTree]_vars

(***************************************************************************)
(* Parent chains.  A walk over the parent relation of MaxNode nodes that   *)
(* has not stopped after MaxNode hops has revisited a node and, the        *)
(* relation being a function, repeats forever.                             *)
(***************************************************************************)

\* following parent() from q in the base reaches p in one or more steps
RECURSIVE TreeReaches(_, _, _, _)
TreeReaches(t, q, p, fuel) ==
    LET par == Tree_parent(t, q)
    IN IF par = None THEN FALSE
       ELSE IF Unwrap(par) = p THEN TRUE
       ELSE IF fuel = 0 THEN FALSE
       ELSE TreeReaches(t, Unwrap(par), p, fuel - 1)

\* following parent() from q in the log view reaches p in one or more steps
RECURSIVE LogReaches(_, _, _, _, _)
LogReaches(l, base, q, p, fuel) ==
    LET par == TreeLog_parent(l, base, q)
    IN IF par = None THEN FALSE
       ELSE IF Unwrap(par) = p THEN TRUE
       ELSE IF fuel = 0 THEN FALSE
       ELSE LogReaches(l, base, Unwrap(par), p, fuel - 1)

\* n lies on a cycle of the combined (log over base) parent relation
OnCycle(l, base, n) == LogReaches(l, base, n, n, MaxNode)

\* C1: in a Tree whose cycles set is empty, q is in descendants(p) exactly
\* when the parent chain of q reaches p in one or more steps.
C1_DescendantsAreChains ==
    tree.cycles = {} =>
        \A p \in Nodes : \A q \in Nodes :
            q \in Tree_descendants(tree, p) <=> TreeReaches(tree, q, p, MaxNode)

\* C2: for nodes p and q outside cycles, q is in children(p) exactly when
\* parent(q) = Some(p).
C2_ChildrenMirrorParents ==
    \A p \in Nodes \ tree.cycles : \A q \in Nodes \ tree.cycles :
        q \in Tree_children(tree, p) <=> Tree_parent(tree, q) = Some(p)

\* C9: every node on a cycle of the combined parent relation is in the
\* combined cycles set.
C9_CycleNodesMarked ==
    \A n \in Nodes : OnCycle(log, tree, n) => TreeLog_has_cycle(log, tree, n)

\* C5: every TreeLog read equals the same read on the Tree obtained by
\* applying a clone of the log to a clone of the base.
C5_TreeLogReadThrough ==
    LET post == Tree_apply(tree, log).tree
    IN \A n \in Nodes :
          /\ TreeLog_parent(log, tree, n) = Tree_parent(post, n)
          /\ TreeLog_children(log, tree, n) = Tree_children(post, n)
          /\ TreeLog_descendants(log, tree, n) = Tree_descendants(post, n)
          /\ TreeLog_has_cycle(log, tree, n) = Tree_has_cycle(post, n)

\* C5 witness: the log overrides a parent, empties a set the base holds,
\* replaces a set the base holds and carries its own cycles set.
C5_Witness ==
    /\ \E n \in Nodes : log.parents[n] # None /\ tree.parents[n] # None
                        /\ Unwrap(log.parents[n]) # tree.parents[n]
    /\ \E n \in Nodes : log.children[n] = Some({}) /\ tree.children[n] # None
    /\ \E n \in Nodes : log.descendants[n] # None /\ tree.descendants[n] # None
                        /\ Unwrap(log.descendants[n]) # {}
                        /\ log.descendants[n] # tree.descendants[n]
    /\ log.cycles # None /\ Unwrap(log.cycles) # tree.cycles

\* C10: depth and the ancestor iterators stop for every node, on the Tree
\* and on the TreeLog.
C10_WalksTerminate ==
    \A n \in Nodes :
        /\ Tree_depth(tree, n).kind # "diverges"
        /\ TreeLog_depth(log, tree, n).kind # "diverges"
        /\ Tree_ancestors_with_self(tree, n).done
        /\ Tree_ancestors(tree, n).done
        /\ TreeLog_ancestors_with_self(log, tree, n).done
        /\ TreeLog_ancestors(log, tree, n).done

(***************************************************************************)
(* Transactions on a NodeSetIndex.  The tree is built first by TreeLog     *)
(* inserts; from the first index write on, the tree is no longer mutated.  *)
(***************************************************************************)

IndexUntouched ==
    nsi = NodeSetIndex_new /\ nsiLog = NodeSetIndexLog_new /\ detached = None

BuildTree(parent, child) ==
    /\ IndexUntouched
    /\ Insert(parent, child)

NsiInsert(node, item) ==
    /\ Step
    /\ nsiLog' = NodeSetIndexLog_insert(nsiLog, nsi, tree, log, node, item)
    /\ UNCHANGED <<nsi, detached, treeVars, oneVars, flatVars>>

NsiRemove(node, item) ==
    /\ Step
    /\ nsiLog' = NodeSetIndexLog_remove(nsiLog, nsi, tree, log, node, item)
    /\ UNCHANGED <<nsi, detached, treeVars, oneVars, flatVars>>

NsiRemoveSubtree(root) ==
    /\ Step
    /\ detached = None
    /\ LET r == NodeSetIndexLog_remove_subtree(nsiLog, nsi, tree, log, root)
       IN nsiLog' = r.log /\ detached' = Some(r.data)
    /\ UNCHANGED <<nsi, treeVars, oneVars, flatVars>>

NsiInsertSubtree ==
    /\ Step
    /\ detached # None
    /\ nsiLog' = NodeSetIndexLog_insert_subtree(nsiLog, nsi, tree, log,
                                                Unwrap(detached))
    /\ detached' = None
    /\ UNCHANGED <<nsi, treeVars, oneVars, flatVars>>

NsiApply ==
    /\ Step
    /\ nsi' = NodeSetIndex_apply(nsi, nsiLog).index
    /\ nsiLog' = NodeSetIndexLog_new
    /\ UNCHANGED <<detached, treeVars, oneVars, flatVars>>

NextNode ==
    \/ \E child \in Nodes : \E parent \in {None} \cup {Some(p) : p \in Nodes} :
          BuildTree(parent, child)
    \/ \E node \in Nodes : \E item \in Items : NsiInsert(node, item)
    \/ \E node \in Nodes : \E item \in Items : NsiRemove(node, item)
    \/ \E root \in Nodes : NsiRemoveSubtree(root)
    \/ NsiInsertSubtree
    \/ NsiApply

InitNode == InitFresh /\ index = "NodeSetIndex"

\* item writes only: insert, remove and apply on a tree built beforehand
NextItems ==
    \/ \E child \in Nodes : \E parent \in {None} \cup {Some(p) : p \in Nodes} :
          BuildTree(parent, child)
    \/ \E node \in Nodes : \E item \in Items : NsiInsert(node, item)
    \/ \E node \in Nodes : \E item \in Items : NsiRemove(node, item)
    \/ NsiApply

SpecItems == InitNode /\ [][NextItems]_vars

SpecNode == InitNode /\ [][NextNode]_vars

\* descendants_with_self(n) read through the TreeLog
TreeLog_descendants_with_self(l, base, node) ==
    {node} \cup TreeLog_descendants(l, base, node)

\* C3: on an acyclic tree (the cycles set is empty; the tree is built by
\* inserts only, so no cycle ever existed), subtree[n] read through the log
\* is the union of direct[d] over every d in descendants_with_self(n).
C3_SubtreeCoverage ==
    TreeLog_cycles(log, tree) = {} =>
        \A n \in Nodes :
            NodeSetIndexLog_subtree_items(nsiLog, nsi, n) =
                UNION {NodeSetIndexLog_direct_items(nsiLog, nsi, d) :
                         d \in TreeLog_descendants_with_self(log, tree, n)}

(***************************************************************************)
(* Transactions on a OneIndex                                              *)
(***************************************************************************)

OneInsert(k, value) ==
    /\ Step
    /\ oneLog' = OneIndexLog_insert(oneLog, one, k, value)
    /\ UNCHANGED <<one, treeVars, nsiVars, flatVars>>

OneRemove(k) ==
    /\ Step
    /\ oneLog' = OneIndexLog_remove(oneLog, one, k)
    /\ UNCHANGED <<one, treeVars, nsiVars, flatVars>>

OneApply ==
    /\ Step
    /\ one' = OneIndex_apply(one, oneLog).index
    /\ oneLog' = OneIndexLog_new
    /\ UNCHANGED <<treeVars, nsiVars, flatVars>>

NextOne ==
    \/ \E k \in Keys : \E value \in Values : OneInsert(k, value)
    \/ \E k \in Keys : OneRemove(k)
    \/ OneApply

InitOne == InitFresh /\ index = "OneIndex"

SpecOne == InitOne /\ [][NextOne]_vars

(***************************************************************************)
(* Transactions on a FlatSetIndex                                          *)
(***************************************************************************)

FlatWrite(l, r) ==
    /\ Step
    /\ flatLog' = l
    /\ reference' = r
    /\ UNCHANGED <<flat, treeVars, nsiVars, oneVars>>

FlatInsert(k, val) ==
    FlatWrite(FlatSetIndexLog_insert(flatLog, flat, k, val).log,
              Reference_set(reference, k, reference.map[k] \cup {val}))

FlatRemove(k, val) ==
    FlatWrite(FlatSetIndexLog_remove(flatLog, flat, k, val).log,
              Reference_set(reference, k, reference.map[k] \ {val}))

FlatUnion(k, rhs) ==
    FlatWrite(FlatSetIndexLog_union(flatLog, flat, k, rhs),
              Reference_set(reference, k, reference.map[k] \cup rhs))

FlatIntersection(k, rhs) ==
    FlatWrite(FlatSetIndexLog_intersection(flatLog, flat, k, rhs),
              Reference_set(reference, k, reference.map[k] \cap rhs))

FlatDifference(k, rhs) ==
    FlatWrite(FlatSetIndexLog_difference(flatLog, flat, k, rhs),
              Reference_set(reference, k, reference.map[k] \ rhs))

FlatInsertNone(val) ==
    FlatWrite(FlatSetIndexLog_insert_none(flatLog, flat, val).log,
              Reference_set_none(reference, reference.none \cup {val}))

FlatRemoveNone(val) ==
    FlatWrite(FlatSetIndexLog_remove_none(flatLog, flat, val).log,
              Reference_set_none(reference, reference.none \ {val}))

FlatUnionNone(rhs) ==
    FlatWrite(FlatSetIndexLog_union_none(flatLog, flat, rhs),
              Reference_set_none(reference, reference.none \cup rhs))

FlatIntersectionNone(rhs) ==
    FlatWrite(FlatSetIndexLog_intersection_none(flatLog, flat, rhs),
              Reference_set_none(reference, reference.none \cap rhs))

FlatDifferenceNone(rhs) ==
    FlatWrite(FlatSetIndexLog_difference_none(flatLog, flat, rhs),
              Reference_set_none(reference, reference.none \ rhs))

FlatApply ==
    /\ Step
    /\ flat' = FlatSetIndex_apply(flat, flatLog).index
    /\ flatLog' = FlatSetIndexLog_new
    /\ UNCHANGED <<reference, treeVars, nsiVars, oneVars>>

NextFlat ==
    \/ \E k \in Keys : \E val \in Items : FlatInsert(k, val)
    \/ \E k \in Keys : \E val \in Items : FlatRemove(k, val)
    \/ \E k \in Keys : \E rhs \in SUBSET Items : FlatUnion(k, rhs)
    \/ \E k \in Keys : \E rhs \in SUBSET Items : FlatIntersection(k, rhs)
    \/ \E k \in Keys : \E rhs \in SUBSET Items : FlatDifference(k, rhs)
    \/ \E val \in Items : FlatInsertNone(val)
    \/ \E val \in Items : FlatRemoveNone(val)
    \/ \E rhs \in SUBSET Items : FlatUnionNone(rhs)
    \/ \E rhs \in SUBSET Items : FlatIntersectionNone(rhs)
    \/ \E rhs \in SUBSET Items : FlatDifferenceNone(rhs)
    \/ FlatApply

InitFlat == InitFresh /\ index = "FlatSetIndex"

SpecFlat == InitFlat /\ [][NextFlat]_vars

(***************************************************************************)
(* The overlay protocol of the three set/scalar indexes: a behaviour       *)
(* exercises one of them, chosen at the start.                             *)
(***************************************************************************)

InitOverlay ==
    InitFresh /\ index \in {"OneIndex", "FlatSetIndex", "NodeSetIndex"}

NextOverlay ==
    \/ index = "OneIndex" /\ NextOne
    \/ index = "FlatSetIndex" /\ NextFlat
    \/ index = "NodeSetIndex" /\ NextNode

SpecOverlay == InitOverlay /\ [][NextOverlay]_vars

\* C4: every read through a OneIndexLog, FlatSetIndexLog or NodeSetIndexLog
\* equals the same read on the base obtained by applying a clone of the log
\* to a clone of the base.
C4_OverlayReadThrough ==
    LET onePost  == OneIndex_apply(one, oneLog).index
        flatPost == FlatSetIndex_apply(flat, flatLog).index
        nsiPost  == NodeSetIndex_apply(nsi, nsiLog).index
    IN /\ \A k \in Keys :
            OneIndexLog_get(oneLog, one, k) = OneIndex_get(onePost, k)
       /\ \A k \in Keys :
            /\ FlatSetIndexLog_get(flatLog, flat, k) = FlatSetIndex_get(flatPost, k)
            /\ \A val \in Items :
                 FlatSetIndexLog_contains(flatLog, flat, k, val)
                    = FlatSetIndex_contains(flatPost, k, val)
       /\ FlatSetIndexLog_none(flatLog, flat) = FlatSetIndex_none(flatPost)
       /\ \A val \in Items :
            FlatSetIndexLog_contains_none(flatLog, flat, val)
               = FlatSetIndex_contains_none(flatPost, val)
       /\ \A n \in Nodes :
            /\ NodeSetIndexLog_direct_items(nsiLog, nsi, n)
                 = NodeSetIndex_direct_items(nsiPost, n)
            /\ NodeSetIndexLog_subtree_items(nsiLog, nsi, n)
                 = NodeSetIndex_subtree_items(nsiPost, n)

\* C4 witness: a FlatSetIndexLog that empties one keyed bucket the base
\* holds, leaves another key to read through, and overrides the none bucket.
C4_Witness ==
    /\ \E k \in Keys : flatLog.map[k] = Some({}) /\ flat.map[k] # None
    /\ \E k \in Keys : flatLog.map[k] = None /\ flat.map[k] # None
    /\ flatLog.none # None /\ Unwrap(flatLog.none) # flat.none

(***************************************************************************)
(* Threads interning, cloning, sending and dropping handles.  Every        *)
(* function locks INTERNER first and holds the guard until it returns.     *)
(***************************************************************************)

\* handles to address a owned by the threads 1..t
RECURSIVE HeldUpTo(_, _)
HeldUpTo(a, t) == IF t = 0 THEN 0 ELSE held[t][a] + HeldUpTo(a, t - 1)

\* live handles pointing to address a: those owned by the threads and the
\* one owned by the static
Live(a) ==
    HeldUpTo(a, MaxThread) + (IF DEFAULT_INTERNED = Some(a) THEN 1 ELSE 0)

RECURSIVE LiveUpTo(_)
LiveUpTo(a) == IF a = 0 THEN 0 ELSE Live(a) + LiveUpTo(a - 1)

\* handles alive, plus those an intern or clone in progress will create
Handles ==
    LiveUpTo(MaxAlloc)
      + Cardinality({t \in Threads :
                       threads[t].pc \in {"intern", "intern_locked",
                                          "intern_found", "clone", "clone_locked"}})

Goto(t, pc, b, ptr) ==
    threads' = [threads EXCEPT ![t] = [pc |-> pc, b |-> b, ptr |-> ptr]]

\* a thread calls intern(b)
InternCall(t, b) ==
    /\ steps < MaxSteps /\ steps' = steps + 1
    /\ threads[t].pc = "idle"
    /\ Handles < MaxHandles
    /\ Goto(t, "intern", b, None)
    /\ UNCHANGED <<heap, table, gate, held, indexVars, index, DEFAULT_INTERNED>>

\* let mut gate = INTERNER.lock().unwrap()
InternLock(t) ==
    /\ threads[t].pc = "intern"
    /\ lock_free(gate)
    /\ gate' = Some(t)
    /\ Goto(t, "intern_locked", threads[t].b, None)
    /\ UNCHANGED <<heap, table, held, indexVars, index, DEFAULT_INTERNED, steps>>

\* gate.get_key_value(q)
InternLookup(t) ==
    /\ threads[t].pc = "intern_locked"
    /\ Goto(t, "intern_found", threads[t].b,
            get_key_value(table, heap, threads[t].b))
    /\ UNCHANGED <<heap, table, gate, held, indexVars, index, DEFAULT_INTERNED,
                   steps>>

\* hit: bump the count and return an alias handle
InternHit(t) ==
    /\ threads[t].pc = "intern_found"
    /\ threads[t].ptr # None
    /\ LET a == Unwrap(threads[t].ptr)
       IN /\ table' = intern_hit(table, a)
          /\ held' = [held EXCEPT ![t][a] = @ + 1]
    /\ gate' = None
    /\ Goto(t, "idle", {}, None)
    /\ UNCHANGED <<heap, indexVars, index, DEFAULT_INTERNED, steps>>

\* miss: box the bitmap, insert it with count 1 and return the handle
InternMiss(t) ==
    /\ threads[t].pc = "intern_found"
    /\ threads[t].ptr = None
    /\ \E a \in Addrs :
          /\ heap[a] = None
          /\ heap' = [heap EXCEPT ![a] = Some(threads[t].b)]
          /\ table' = intern_miss(table, a)
          /\ held' = [held EXCEPT ![t][a] = @ + 1]
    /\ gate' = None
    /\ Goto(t, "idle", {}, None)
    /\ UNCHANGED <<indexVars, index, DEFAULT_INTERNED, steps>>

\* a thread calls clone() on a handle it owns
CloneCall(t, a) ==
    /\ steps < MaxSteps /\ steps' = steps + 1
    /\ threads[t].pc = "idle"
    /\ held[t][a] > 0
    /\ Handles < MaxHandles
    /\ Goto(t, "clone", {}, Some(a))
    /\ UNCHANGED <<heap, table, gate, held, indexVars, index, DEFAULT_INTERNED>>

CloneLock(t) ==
    /\ threads[t].pc = "clone"
    /\ lock_free(gate)
    /\ gate' = Some(t)
    /\ Goto(t, "clone_locked", {}, threads[t].ptr)
    /\ UNCHANGED <<heap, table, held, indexVars, index, DEFAULT_INTERNED, steps>>

CloneReturn(t) ==
    /\ threads[t].pc = "clone_locked"
    /\ LET a == Unwrap(threads[t].ptr)
       IN /\ table' = clone_table(table, a)
          /\ held' = [held EXCEPT ![t][a] = @ + 1]
    /\ gate' = None
    /\ Goto(t, "idle", {}, None)
    /\ UNCHANGED <<heap, indexVars, index, DEFAULT_INTERNED, steps>>

\* a handle owned by the thread goes out of scope
DropCall(t, a) ==
    /\ steps < MaxSteps /\ steps' = steps + 1
    /\ threads[t].pc = "idle"
    /\ held[t][a] > 0
    /\ Goto(t, "drop", {}, Some(a))
    /\ UNCHANGED <<heap, table, gate, held, indexVars, index, DEFAULT_INTERNED>>

DropLock(t) ==
    /\ threads[t].pc = "drop"
    /\ lock_free(gate)
    /\ gate' = Some(t)
    /\ Goto(t, "drop_locked", {}, threads[t].ptr)
    /\ UNCHANGED <<heap, table, held, indexVars, index, DEFAULT_INTERNED, steps>>

DropReturn(t) ==
    /\ threads[t].pc = "drop_locked"
    /\ LET a == Unwrap(threads[t].ptr)
           r == drop_handle(table, heap, a)
       IN /\ table' = r.table
          /\ heap' = r.heap
          /\ held' = [held EXCEPT ![t][a] = @ - 1]
    /\ gate' = None
    /\ Goto(t, "idle", {}, None)
    /\ UNCHANGED <<indexVars, index, DEFAULT_INTERNED, steps>>

\* a handle is sent to another thread (IRoaringBitmap is Send)
Send(t, u, a) ==
    /\ steps < MaxSteps /\ steps' = steps + 1
    /\ t # u
    /\ threads[t].pc = "idle"
    /\ held[t][a] > 0
    /\ held' = [held EXCEPT ![t][a] = @ - 1, ![u][a] = @ + 1]
    /\ UNCHANGED <<heap, table, gate, threads, indexVars, index, DEFAULT_INTERNED>>

\* the initializer of DEFAULT_INTERNED, run once on the first access:
\* intern(Cow::Owned(RoaringBitmap::new())), from lock to return
DefaultInit ==
    /\ steps < MaxSteps /\ steps' = steps + 1
    /\ DEFAULT_INTERNED = None
    /\ Handles < MaxHandles
    /\ lock_free(gate)
    /\ LET found == get_key_value(table, heap, {})
       IN IF found # None
          THEN /\ table' = intern_hit(table, Unwrap(found))
               /\ heap' = heap
               /\ DEFAULT_INTERNED' = found
          ELSE \E a \in Addrs :
                  /\ heap[a] = None
                  /\ heap' = [heap EXCEPT ![a] = Some({})]
                  /\ table' = intern_miss(table, a)
                  /\ DEFAULT_INTERNED' = Some(a)
    /\ UNCHANGED <<gate, held, threads, indexVars, index>>

\* a thread calls IRoaringBitmap::default(): DEFAULT_INTERNED.clone()
DefaultCall(t) ==
    /\ steps < MaxSteps /\ steps' = steps + 1
    /\ DEFAULT_INTERNED # None
    /\ threads[t].pc = "idle"
    /\ Handles < MaxHandles
    /\ Goto(t, "clone", {}, DEFAULT_INTERNED)
    /\ UNCHANGED <<heap, table, gate, held, indexVars, index, DEFAULT_INTERNED>>

NextInterner ==
    \/ \E t \in Threads : \E b \in SUBSET Items : InternCall(t, b)
    \/ \E t \in Threads : InternLock(t)
    \/ \E t \in Threads : InternLookup(t)
    \/ \E t \in Threads : InternHit(t)
    \/ \E t \in Threads : InternMiss(t)
    \/ \E t \in Threads : \E a \in Addrs : CloneCall(t, a)
    \/ \E t \in Threads : CloneLock(t)
    \/ \E t \in Threads : CloneReturn(t)
    \/ \E t \in Threads : \E a \in Addrs : DropCall(t, a)
    \/ \E t \in Threads : DropLock(t)
    \/ \E t \in Threads : DropReturn(t)
    \/ \E t \in Threads : \E u \in Threads : \E a \in Addrs : Send(t, u, a)
    \/ DefaultInit
    \/ \E t \in Threads : DefaultCall(t)

InitInterner == InitFresh /\ index = "interner"

SpecInterner == InitInterner /\ [][NextInterner]_vars

\* C6: the table never holds two entries with equal contents, and two live
\* handles with equal contents point to the same allocation.
C6_OnePayloadPerValue ==
    /\ \A a \in Addrs : \A c \in Addrs :
          (table[a] # None /\ table[c] # None /\ a # c) =>
              (heap[a] # None /\ heap[c] # None /\ heap[a] # heap[c])
    /\ \A a \in Addrs : \A c \in Addrs :
          (Live(a) > 0 /\ Live(c) > 0 /\ a # c) =>
              (heap[a] # None /\ heap[c] # None /\ heap[a] # heap[c])

\* C6 witness: both threads hold a handle to the same payload, each obtained
\* by its own intern of that value.
C6_Witness ==
    \E a \in Addrs : \A t \in Threads : held[t][a] > 0

\* C7: the count of every table entry is the number of live handles to its
\* payload, and every live handle points to an allocated, registered payload.
C7_CountIsLiveHandles ==
    \A a \in Addrs :
        /\ table[a] # None => Unwrap(table[a]) = Live(a)
        /\ Live(a) > 0 => (table[a] # None /\ heap[a] # None)

\* C7 witness: a payload with two handles while one thread is about to drop
\* its handle and the other is about to intern the same value.
C7_Witness ==
    \E a \in Addrs : \E t \in Threads : \E u \in Threads :
        /\ table[a] = Some(MaxThread)
        /\ threads[t].pc = "drop" /\ threads[t].ptr = Some(a)
        /\ threads[u].pc = "intern" /\ Some(threads[u].b) = heap[a]

\* C8: a value without live handle has no table entry and no payload.
C8_NoLeak ==
    \A a \in Addrs : Live(a) = 0 => (table[a] = None /\ heap[a] = None)

\* C8 witness: handles were created and every one of them was dropped
\* (at least four calls were made and have returned): nothing is left.
C8_Witness ==
    /\ steps >= 4
    /\ \A t \in Threads : threads[t].pc = "idle"
    /\ \A a \in Addrs : Live(a) = 0 /\ table[a] = None /\ heap[a] = None

(***************************************************************************)
(* Results of depth, of apply and of the TreeLog writes.  A read of a Tree *)
(* is the read of an unwritten log over it, so the properties of both are  *)
(* stated once over the log view.                                          *)
(***************************************************************************)

\* the walks of at most MaxNode nodes that start at n and follow parent()
ParentPaths(l, base, n) ==
    {p \in UNION {[1..k -> Nodes] : k \in 1..MaxNode} :
        /\ p[1] = n
        /\ \A i \in 1..(Len(p) - 1) : TreeLog_parent(l, base, p[i]) = Some(p[i + 1])}

\* what depth(n) must return when the walk p settles it
DepthOf(l, base, p, result) ==
    LET cyc   == TreeLog_cycles(l, base)
        clean == \A i \in 1..(Len(p) - 1) : p[i] \notin cyc
    IN /\ (clean /\ p[Len(p)] \notin cyc /\ TreeLog_parent(l, base, p[Len(p)]) = None)
            => result = [kind |-> "Ok", value |-> Len(p)]
       /\ (clean /\ p[Len(p)] \in cyc)
            => result = [kind |-> "CycleError", value |-> p[Len(p)]]

\* C11: depth(n) is Ok(k), k the number of nodes on the parent chain of n up
\* to the node without parent, when that chain meets no node of cycles, and
\* CycleError(m), m the first node of cycles on the chain, when it meets one;
\* on the Tree and on the TreeLog.
C11_DepthResult ==
    \A n \in Nodes :
        /\ \A p \in ParentPaths(log, tree, n) :
              DepthOf(log, tree, p, TreeLog_depth(log, tree, n))
        /\ \A p \in ParentPaths(TreeLog_new, tree, n) :
              DepthOf(TreeLog_new, tree, p, Tree_depth(tree, n))

\* C11 witness: a committed chain of MaxNode nodes, and a log in which the
\* walk of a node outside cycles runs into a node of cycles.
C11_Witness ==
    /\ \E n \in Nodes : Tree_depth(tree, n) = [kind |-> "Ok", value |-> MaxNode]
    /\ \E n \in Nodes : /\ TreeLog_depth(log, tree, n).kind = "CycleError"
                        /\ TreeLog_depth(log, tree, n).value # n

\* the reads of two trees agree on every node
SameTree(t1, t2) ==
    /\ t1.cycles = t2.cycles
    /\ \A n \in Nodes : /\ Tree_parent(t1, n) = Tree_parent(t2, n)
                        /\ Tree_children(t1, n) = Tree_children(t2, n)
                        /\ Tree_descendants(t1, n) = Tree_descendants(t2, n)

\* C12: Tree::apply returns true exactly when a parent entry, a children
\* set, a descendants set or the cycles set of the base differs afterwards.
C12_TreeApplyReportsChange ==
    LET r == Tree_apply(tree, log)
    IN r.changed <=> ~SameTree(r.tree, tree)

\* C13: OneIndex::apply returns true exactly when get(k) of the base differs
\* afterwards for at least one key k.
C13_OneApplyReportsChange ==
    LET r == OneIndex_apply(one, oneLog)
    IN r.changed <=> \E k \in Keys : OneIndex_get(r.index, k) # OneIndex_get(one, k)

\* C13 witness: the log re-inserts the value the base holds for one key and
\* clears a key beyond the base's vector, and apply reports no change.
C13_Witness ==
    /\ \E k \in Keys : /\ OneIndex_get(one, k) # None
                       /\ oneLog[k] = Some(OneIndex_get(one, k))
    /\ \E k \in Keys : k >= Len(one.data) /\ oneLog[k] = Some(None)
    /\ ~OneIndex_apply(one, oneLog).changed

\* C14: FlatSetIndex::apply and NodeSetIndex::apply return true exactly when
\* a keyed bucket or the none bucket (FlatSetIndex), or the direct or subtree
\* items of a node (NodeSetIndex), differ afterwards.
C14_SetApplyReportsChange ==
    LET f == FlatSetIndex_apply(flat, flatLog)
        n == NodeSetIndex_apply(nsi, nsiLog)
    IN /\ f.changed <=>
            \/ \E k \in Keys : FlatSetIndex_get(f.index, k) # FlatSetIndex_get(flat, k)
            \/ FlatSetIndex_none(f.index) # FlatSetIndex_none(flat)
       /\ n.changed <=>
            \E id \in Nodes :
               \/ NodeSetIndex_direct_items(n.index, id)
                     # NodeSetIndex_direct_items(nsi, id)
               \/ NodeSetIndex_subtree_items(n.index, id)
                     # NodeSetIndex_subtree_items(nsi, id)

\* C14 witness: the log holds a bucket written back to the content of the
\* base and an empty bucket for a key the base lacks; apply reports no change.
C14_Witness ==
    /\ \E k \in Keys : flat.map[k] # None /\ flatLog.map[k] = flat.map[k]
    /\ \E k \in Keys : flat.map[k] = None /\ flatLog.map[k] = Some({})
    /\ ~FlatSetIndex_apply(flat, flatLog).changed

(***************************************************************************)
(* Every index: a behaviour exercises the Tree or one of the three others. *)
(***************************************************************************)

InitAll ==
    InitFresh /\ index \in {"Tree", "OneIndex", "FlatSetIndex", "NodeSetIndex"}

NextAll ==
    \/ index = "Tree" /\ NextTree
    \/ NextOverlay

SpecAll == InitAll /\ [][NextAll]_vars

\* C15: applying a freshly created log to the base returns false and leaves
\* every read of the base as it was; for the four indexes.
C15_EmptyLogApply ==
    LET t == Tree_apply(tree, TreeLog_new)
        o == OneIndex_apply(one, OneIndexLog_new)
        f == FlatSetIndex_apply(flat, FlatSetIndexLog_new)
        n == NodeSetIndex_apply(nsi, NodeSetIndexLog_new)
    IN /\ ~t.changed /\ SameTree(t.tree, tree)
       /\ ~o.changed /\ o.index.len = one.len
       /\ \A k \in Keys : OneIndex_get(o.index, k) = OneIndex_get(one, k)
       /\ ~f.changed /\ FlatSetIndex_none(f.index) = FlatSetIndex_none(flat)
       /\ \A k \in Keys : FlatSetIndex_get(f.index, k) = FlatSetIndex_get(flat, k)
       /\ ~n.changed
       /\ \A id \in Nodes :
             /\ NodeSetIndex_direct_items(n.index, id)
                   = NodeSetIndex_direct_items(nsi, id)
             /\ NodeSetIndex_subtree_items(n.index, id)
                   = NodeSetIndex_subtree_items(nsi, id)

\* C15 witness: a committed Tree with parents, children, descendants and a
\* non-empty cycles set, and a log that has not been written.
C15_Witness ==
    /\ log = TreeLog_new
    /\ tree.cycles # {}
    /\ \E id \in Nodes \ tree.cycles : Tree_descendants(tree, id) # {}

(***************************************************************************)
(* Postconditions of TreeLog::insert and TreeLog::remove, stated for every *)
(* reachable base and log and for every argument.                          *)
(***************************************************************************)

\* the arguments accepted for the parent of insert
ParentArgs == {None} \cup {Some(p) : p \in Nodes}

\* C16: after insert(base, parent, child), parent(child) read through the
\* log is the requested parent, whatever the state and the arguments.
C16_InsertSetsParent ==
    \A child \in Nodes : \A parent \in ParentArgs :
        TreeLog_parent(TreeLog_insert(log, tree, parent, child), tree, child) = parent

\* C16 witness: inserts have made one node its own parent and have put
\* another node under one of its descendants.
C16_Witness ==
    /\ \E c \in Nodes : TreeLog_parent(log, tree, c) = Some(c)
    /\ \E c \in Nodes : \E p \in Nodes \ {c} :
          /\ TreeLog_parent(log, tree, c) = Some(p)
          /\ TreeLog_parent(log, tree, p) = Some(c)

\* C17: after insert(base, Some(p), child) that changes the parent of child,
\* child is in children(p), and child with every descendant of child is in
\* descendants(p) and in descendants(a) of every ancestor a of p.
C17_InsertExtendsAncestors ==
    \A child \in Nodes : \A p \in Nodes :
        TreeLog_parent(log, tree, child) # Some(p) =>
            LET post  == TreeLog_insert(log, tree, Some(p), child)
                moved == {child} \cup TreeLog_descendants(post, tree, child)
            IN /\ child \in TreeLog_children(post, tree, p)
               /\ moved \subseteq TreeLog_descendants(post, tree, p)
               /\ \A a \in Nodes :
                     LogReaches(post, tree, p, a, MaxNode)
                        => moved \subseteq TreeLog_descendants(post, tree, a)

\* the combined tree is acyclic: no node lies on a cycle and none is marked
Acyclic(l, base) ==
    /\ TreeLog_cycles(l, base) = {}
    /\ \A n \in Nodes : ~OnCycle(l, base, n)

\* C18: after remove(base, n) on an acyclic tree, n and every former
\* descendant of n have no parent, no children and no descendants, n is not
\* a child of its former parent, and no node has n or a former descendant of
\* n among its descendants.
C18_RemoveDropsSubtree ==
    Acyclic(log, tree) =>
        \A n \in Nodes :
            LET post   == TreeLog_remove(log, tree, n)
                sub    == {n} \cup TreeLog_descendants(log, tree, n)
                former == TreeLog_parent(log, tree, n)
            IN /\ \A m \in sub :
                     /\ TreeLog_parent(post, tree, m) = None
                     /\ TreeLog_children(post, tree, m) = {}
                     /\ TreeLog_descendants(post, tree, m) = {}
               /\ \A f \in former : n \notin TreeLog_children(post, tree, f)
               /\ \A a \in Nodes : TreeLog_descendants(post, tree, a) \cap sub = {}

\* C19: in a Tree whose cycles set is empty, descendants(n) is the union of
\* {c} and descendants(c) over the children c of n.
C19_DescendantsClosure ==
    tree.cycles = {} =>
        \A n \in Nodes :
            Tree_descendants(tree, n) =
                UNION {{c} \cup Tree_descendants(tree, c) : c \in Tree_children(tree, n)}

\* C20: a node that is not on a cycle but whose parent walk reaches a node
\* on a cycle is in the cycles set.
C20_PathsIntoCyclesMarked ==
    \A n \in Nodes :
        (/\ ~OnCycle(log, tree, n)
         /\ \E m \in Nodes : LogReaches(log, tree, n, m, MaxNode) /\ OnCycle(log, tree, m))
            => TreeLog_has_cycle(log, tree, n)

(***************************************************************************)
(* The cycles set seen from the other side: what it may contain.           *)
(***************************************************************************)

\* C21: a node is in the cycles set only if it lies on a cycle of the
\* current parent relation or its parent walk reaches one.
C21_MarkedNodesReachCycles ==
    \A n \in TreeLog_cycles(log, tree) :
        \/ OnCycle(log, tree, n)
        \/ \E m \in Nodes : LogReaches(log, tree, n, m, MaxNode) /\ OnCycle(log, tree, m)

\* C22: right after remove(base, n), has_cycle(m) holds only for nodes m on
\* a cycle of the resulting parent relation; when no cycle is left, depth
\* returns Ok for every node.
C22_RemoveRecomputesCycles ==
    \A n \in Nodes :
        LET post == TreeLog_remove(log, tree, n)
        IN /\ \A m \in Nodes : TreeLog_has_cycle(post, tree, m) => OnCycle(post, tree, m)
           /\ (\A m \in Nodes : ~OnCycle(post, tree, m))
                 => \A m \in Nodes : TreeLog_depth(post, tree, m).kind = "Ok"

\* C22 witness: a remove has emptied the cycles set the base had committed,
\* no cycle is left and some nodes still have a parent.
C22_Witness ==
    /\ log.cycles = Some({}) /\ tree.cycles # {}
    /\ \A m \in Nodes : ~OnCycle(log, tree, m)
    /\ \E m \in Nodes : TreeLog_parent(log, tree, m) # None

(***************************************************************************)
(* Moving a subtree of a NodeSetIndex: remove_subtree, a re-parenting of   *)
(* the detached root in the TreeLog, then insert_subtree.                  *)
(***************************************************************************)

\* the caller's tree mutation between remove_subtree and insert_subtree
MoveTree(parent) ==
    /\ detached # None
    /\ Insert(parent, Unwrap(detached).root)

\* a tree built by inserts, items inserted and committed, subtrees moved
NextMove ==
    \/ \E child \in Nodes : \E parent \in ParentArgs : BuildTree(parent, child)
    \/ \E node \in Nodes : \E item \in Items : NsiInsert(node, item)
    \/ NsiApply
    \/ \E root \in Nodes : NsiRemoveSubtree(root)
    \/ \E parent \in ParentArgs : MoveTree(parent)
    \/ NsiInsertSubtree

SpecMove == InitNode /\ [][NextMove]_vars

\* subtree[n] is the union of direct[d] over descendants_with_self(n)
Coverage(il, ib, tl, tb) ==
    \A n \in Nodes :
        NodeSetIndexLog_subtree_items(il, ib, n) =
            UNION {NodeSetIndexLog_direct_items(il, ib, d) :
                     d \in TreeLog_descendants_with_self(tl, tb, n)}

\* remove_subtree(r), insert(parent, r) on the tree, insert_subtree: the
\* TreeLog and the NodeSetIndexLog afterwards
MoveSubtree(r, parent) ==
    LET rs    == NodeSetIndexLog_remove_subtree(nsiLog, nsi, tree, log, r)
        moved == TreeLog_insert(log, tree, parent, r)
    IN [tree  |-> moved,
        index |-> NodeSetIndexLog_insert_subtree(rs.log, nsi, tree, moved, rs.data)]

\* C23: from an acyclic state where subtree coverage holds, moving r under a
\* new parent outside r's subtree leaves subtree coverage true for every
\* node.
C23_MoveKeepsCoverage ==
    (Acyclic(log, tree) /\ Coverage(nsiLog, nsi, log, tree)) =>
        \A r \in Nodes :
            \A p \in Nodes \ TreeLog_descendants_with_self(log, tree, r) :
                \A after \in {MoveSubtree(r, Some(p))} :
                    Coverage(after.index, nsi, after.tree, tree)

\* C24: after the move of r, direct[d] and subtree[d] of every node d of the
\* detached region are what they were before remove_subtree, and subtree[a]
\* includes subtree[r] for r's new parent and each of its ancestors.
C24_MoveRestoresRegion ==
    detached = None =>
    \A r \in Nodes : \A parent \in ParentArgs :
        \A after \in {MoveSubtree(r, parent)} :
           /\ \A d \in TreeLog_descendants_with_self(log, tree, r) :
                /\ NodeSetIndexLog_direct_items(after.index, nsi, d)
                      = NodeSetIndexLog_direct_items(nsiLog, nsi, d)
                /\ NodeSetIndexLog_subtree_items(after.index, nsi, d)
                      = NodeSetIndexLog_subtree_items(nsiLog, nsi, d)
           /\ \A a \in Nodes :
                (LogReaches(after.tree, tree, r, a, MaxNode))
                   => NodeSetIndexLog_subtree_items(after.index, nsi, r)
                         \subseteq NodeSetIndexLog_subtree_items(after.index, nsi, a)

\* C25: after remove_subtree(root), direct and subtree items read through
\* the log are empty for every node of descendants_with_self(root).
C25_RemoveSubtreeEmptiesRegion ==
    \A root \in Nodes :
        LET after == NodeSetIndexLog_remove_subtree(nsiLog, nsi, tree, log, root).log
        IN \A d \in TreeLog_descendants_with_self(log, tree, root) :
              /\ NodeSetIndexLog_direct_items(after, nsi, d) = {}
              /\ NodeSetIndexLog_subtree_items(after, nsi, d) = {}

\* C24 as amended: when the parent walk of r after the re-parenting meets no
\* node of the detached region, direct[d] and subtree[d] of every node d of
\* the region are what they were before remove_subtree, and subtree[a]
\* includes subtree[r] for r's new parent and each of its ancestors.
C24_MoveRestoresRegionOffCycle ==
    detached = None =>
    \A r \in Nodes : \A parent \in ParentArgs :
        \A after \in {MoveSubtree(r, parent)} :
        \A region \in {TreeLog_descendants_with_self(log, tree, r)} :
           (\A a \in region : ~LogReaches(after.tree, tree, r, a, MaxNode)) =>
              /\ \A d \in region :
                    /\ NodeSetIndexLog_direct_items(after.index, nsi, d)
                          = NodeSetIndexLog_direct_items(nsiLog, nsi, d)
                    /\ NodeSetIndexLog_subtree_items(after.index, nsi, d)
                          = NodeSetIndexLog_subtree_items(nsiLog, nsi, d)
              /\ \A a \in Nodes :
                    LogReaches(after.tree, tree, r, a, MaxNode)
                       => NodeSetIndexLog_subtree_items(after.index, nsi, r)
                             \subseteq NodeSetIndexLog_subtree_items(after.index, nsi, a)

\* C24 witness: a region of two nodes with items committed to the base and
\* written in the log, and a new parent outside it that gains items.
C24_Witness ==
    detached = None /\ \E r \in Nodes : \E p \in Nodes :
        \E after \in {MoveSubtree(r, Some(p))} :
        \E region \in {TreeLog_descendants_with_self(log, tree, r)} :
           /\ Cardinality(region) = 2 /\ p \notin region
           /\ \A a \in region : ~LogReaches(after.tree, tree, r, a, MaxNode)
           /\ \E d \in region : nsi.direct_items[d] # None
           /\ \E d \in region : nsiLog.direct_items[d] # None
           /\ NodeSetIndexLog_subtree_items(after.index, nsi, p)
                 # NodeSetIndexLog_subtree_items(nsiLog, nsi, p)

\* C26: no FlatSetIndex base reached by transactions maps a key to an empty
\* set: applying the current log removes every key whose bucket the log has
\* emptied, creates no key from an empty log bucket, and leaves a none bucket
\* (a set, possibly empty) in place.
C26_NoEmptyBaseBucket ==
    /\ \A k \in Keys : flat.map[k] # Some({})
    /\ flat.none \in SUBSET Items
    /\ \A post \in {FlatSetIndex_apply(flat, flatLog).index} :
          /\ post.none \in SUBSET Items
          /\ \A k \in Keys :
                /\ post.map[k] # Some({})
                /\ flatLog.map[k] = Some({}) => post.map[k] = None

C26_Witness ==
    /\ \E k \in Keys : flat.map[k] # None /\ flatLog.map[k] = Some({})
    /\ \E k \in Keys : flat.map[k] = None /\ flatLog.map[k] = Some({})
    /\ flat.none = {}

\* C27: insert and insert_none of a FlatSetIndexLog return true exactly when
\* the value was not in the bucket read through the log before the call,
\* remove and remove_none exactly when it was; a call that returns false
\* leaves the content of the bucket as it was.
C27_WriteReportsChange ==
    /\ \A k \in Keys : \A val \in Items :
          \A before \in {FlatSetIndexLog_get(flatLog, flat, k)} :
          \A ins \in {FlatSetIndexLog_insert(flatLog, flat, k, val)} :
          \A rem \in {FlatSetIndexLog_remove(flatLog, flat, k, val)} :
             /\ ins.result = (val \notin before)
             /\ rem.result = (val \in before)
             /\ ~ins.result => FlatSetIndexLog_get(ins.log, flat, k) = before
             /\ ~rem.result => FlatSetIndexLog_get(rem.log, flat, k) = before
    /\ \A val \in Items :
          \A before \in {FlatSetIndexLog_none(flatLog, flat)} :
          \A ins \in {FlatSetIndexLog_insert_none(flatLog, flat, val)} :
          \A rem \in {FlatSetIndexLog_remove_none(flatLog, flat, val)} :
             /\ ins.result = (val \notin before)
             /\ rem.result = (val \in before)
             /\ ~ins.result => FlatSetIndexLog_none(ins.log, flat) = before
             /\ ~rem.result => FlatSetIndexLog_none(rem.log, flat) = before

C27_Witness ==
    /\ \E k \in Keys : \E val \in Items :
          /\ flatLog.map[k] = None
          /\ val \in FlatSetIndex_get(flat, k)
          /\ ~FlatSetIndexLog_insert(flatLog, flat, k, val).result
          /\ FlatSetIndexLog_remove(flatLog, flat, k, val).result
    /\ \E val \in Items :
          /\ flatLog.none = None
          /\ val \in flat.none
          /\ ~FlatSetIndexLog_insert_none(flatLog, flat, val).result

\* C28: after any sequence of transactions of insert, remove, union,
\* intersection and difference calls, keyed or on the none bucket, the
\* FlatSetIndex produced by apply agrees on every key and on the none bucket
\* with the reference map given the same calls in the same order.
C28_AgreesWithReference ==
    /\ \A post \in {FlatSetIndex_apply(flat, flatLog).index} :
          /\ \A k \in Keys : FlatSetIndex_get(post, k) = reference.map[k]
          /\ FlatSetIndex_none(post) = reference.none
    /\ flatLog = FlatSetIndexLog_new =>
          /\ \A k \in Keys : FlatSetIndex_get(flat, k) = reference.map[k]
          /\ FlatSetIndex_none(flat) = reference.none

C28_Witness ==
    /\ flatLog = FlatSetIndexLog_new
    /\ \E k \in Keys : flat.map[k] # None /\ Unwrap(flat.map[k]) # Items
    /\ \E k \in Keys : flat.map[k] = None
    /\ flat.none # {}
    /\ steps = MaxSteps

\* C29: in every OneIndex reached by applies, len() is the number of keys
\* whose slot is occupied; an apply adds one for each vacant key it fills,
\* subtracts one for each occupied key it clears, and counts neither a
\* replaced value nor the clearing of a vacant key.
C29_LenCountsOccupied ==
    /\ OneIndex_len(one) = Cardinality({k \in Keys : OneIndex_get(one, k) # None})
    /\ \A post \in {OneIndex_apply(one, oneLog).index} :
          /\ OneIndex_len(post)
                = Cardinality({k \in Keys : OneIndex_get(post, k) # None})
          /\ OneIndex_len(post) - OneIndex_len(one)
                = Cardinality({k \in Keys : /\ OneIndex_get(one, k) = None
                                            /\ oneLog[k] # None
                                            /\ Unwrap(oneLog[k]) # None})
                  - Cardinality({k \in Keys : /\ OneIndex_get(one, k) # None
                                              /\ oneLog[k] = Some(None)})

C29_Witness ==
    /\ \E k \in Keys : /\ OneIndex_get(one, k) # None
                       /\ oneLog[k] # None
                       /\ Unwrap(oneLog[k]) \notin {None, OneIndex_get(one, k)}
    /\ \E k \in Keys : OneIndex_get(one, k) = None /\ oneLog[k] = Some(None)

C29_WitnessFillAndClear ==
    /\ \E k \in Keys : /\ OneIndex_get(one, k) = None
                       /\ oneLog[k] # None /\ Unwrap(oneLog[k]) # None
    /\ \E k \in Keys : OneIndex_get(one, k) # None /\ oneLog[k] = Some(None)

\* C30: two live handles compare equal (by address) exactly when the sets
\* they point to are equal, and handles that compare equal have equal hashes.
C30_HandleEqualityIsContentEquality ==
    \A a \in Addrs : \A c \in Addrs :
        (Live(a) > 0 /\ Live(c) > 0) =>
            /\ heap[a] # None /\ heap[c] # None
            /\ Key_eq(a, c) <=> (Unwrap(heap[a]) = Unwrap(heap[c]))
            /\ Key_eq(a, c) =>
                  IRoaringBitmap_hash(heap, a) = IRoaringBitmap_hash(heap, c)
            /\ Unwrap(heap[a]) = Unwrap(heap[c]) =>
                  IRoaringBitmap_hash(heap, a) = IRoaringBitmap_hash(heap, c)

\* C30 witness: two handles to one payload, each from its own intern call,
\* next to a handle to a payload with other contents.
C30_Witness ==
    \E a \in Addrs : \E c \in Addrs :
        /\ a # c
        /\ \A t \in Threads : held[t][a] > 0
        /\ Live(c) > 0
        /\ heap[a] # Some({}) /\ heap[c] # Some({})
        /\ \A t \in Threads : threads[t].pc = "idle"

\* C31: once DEFAULT_INTERNED is initialized it points to the same allocation
\* for ever; that allocation holds the empty set, stays registered in the
\* interner with a count of at least one and is never freed, and every live
\* handle to an empty set (from Default or from intern) points to it.
C31_DefaultStays ==
    DEFAULT_INTERNED # None =>
        \A a \in {Unwrap(DEFAULT_INTERNED)} :
            /\ heap[a] = Some({})
            /\ table[a] # None /\ Unwrap(table[a]) >= 1
            /\ \A c \in Addrs : (Live(c) > 0 /\ heap[c] = Some({})) => c = a

\* C31 witness: after the initializer and at least four more calls (default,
\* intern, clone or drop), only the static's handle to the empty set is left
\* and a thread is about to drop the last other handle to it.
C31_Witness ==
    /\ DEFAULT_INTERNED # None
    /\ steps >= 5
    /\ \E t \in Threads :
          /\ threads[t].pc = "drop_locked"
          /\ threads[t].ptr = DEFAULT_INTERNED
          /\ table[Unwrap(DEFAULT_INTERNED)] = Some(2)
    /\ \A c \in Addrs : DEFAULT_INTERNED # Some(c) => heap[c] = None

\* C32: on a key without override in the log, insert of the value the base
\* already holds records nothing, and remove of a key the base does not hold,
\* beyond the vector or on a vacant slot inside it, records nothing.
C32_WriteRecordsOnlyChanges ==
    \A k \in Keys :
        oneLog[k] = None =>
            /\ \A value \in Values :
                  OneIndex_get(one, k) = Some(value)
                      => OneIndexLog_insert(oneLog, one, k, value) = oneLog
            /\ OneIndex_get(one, k) = None
                  => OneIndexLog_remove(oneLog, one, k) = oneLog

(***************************************************************************)
(* Transactions on a Tree whose inserts never put a node under itself or   *)
(* under a node of its own subtree.                                        *)
(***************************************************************************)

InsertOutside(parent, child) ==
    /\ parent # Some(child)
    /\ parent # None => ~LogReaches(log, tree, Unwrap(parent), child, MaxNode)
    /\ Insert(parent, child)

NextOutside ==
    \/ \E child \in Nodes : \E parent \in ParentArgs : InsertOutside(parent, child)
    \/ \E node \in Nodes : Remove(node)
    \/ Apply

SpecOutside == InitTree /\ [][NextOutside]_vars

\* the three consistency conditions of a tree read through a log
Consistent(l, base) ==
    /\ TreeLog_cycles(l, base) = {}
    /\ \A p \in Nodes : \A q \in Nodes :
          q \in TreeLog_children(l, base, p) <=> TreeLog_parent(l, base, q) = Some(p)
    /\ \A p \in Nodes :
          TreeLog_descendants(l, base, p)
              = {q \in Nodes : LogReaches(l, base, q, p, MaxNode)}

\* C33: from an empty Tree, over transactions whose inserts never make a
\* node the child of itself or of one of its descendants, every state has an
\* empty cycles set, q in children(p) iff parent(q) = Some(p), and
\* descendants(p) equal to the nodes whose parent chain reaches p, in the
\* base and as read through the log.
C33_AcyclicStaysConsistent ==
    Consistent(log, tree) /\ Consistent(TreeLog_new, tree)

\* C33 witness: the base holds the chain 1 -> 2 -> 3 and the log has moved 3
\* under 1.
C33_Witness ==
    /\ Tree_parent(tree, 2) = Some(1) /\ Tree_parent(tree, 3) = Some(2)
    /\ TreeLog_parent(log, tree, 3) = Some(1)
    /\ TreeLog_children(log, tree, 1) = {2, 3}
    /\ TreeLog_descendants(log, tree, 2) = {}

\* C34: insert(parent, child) leaves, as read through the log, the parent of
\* every node other than child and the children and descendants of child and
\* of every node of child's subtree as they were; when parent(child) already
\* is the requested parent the log is left as it was.
C34_InsertFrame ==
    \A child \in Nodes : \A parent \in ParentArgs :
        \A post \in {TreeLog_insert(log, tree, parent, child)} :
            /\ \A n \in Nodes \ {child} :
                  TreeLog_parent(post, tree, n) = TreeLog_parent(log, tree, n)
            /\ \A n \in {child} \cup TreeLog_descendants(log, tree, child) :
                  /\ TreeLog_children(post, tree, n) = TreeLog_children(log, tree, n)
                  /\ TreeLog_descendants(post, tree, n)
                        = TreeLog_descendants(log, tree, n)
            /\ TreeLog_parent(log, tree, child) = parent => post = log

\* C34 witness: a node with a child of its own can be moved under a node
\* outside its subtree that is not its parent yet.
C34_Witness ==
    \E child \in Nodes : \E p \in Nodes :
        /\ TreeLog_children(log, tree, child) # {}
        /\ p \notin {child} \cup TreeLog_descendants(log, tree, child)
        /\ TreeLog_parent(log, tree, child) \notin {None, Some(p)}
        /\ TreeLog_insert(log, tree, Some(p), child) # log

RoundTrip(r) ==
    LET rs == NodeSetIndexLog_remove_subtree(nsiLog, nsi, tree, log, r)
    IN NodeSetIndexLog_insert_subtree(rs.log, nsi, tree, log, rs.data)

\* C37: where every ancestor a of r has subtree[a] including subtree[r],
\* remove_subtree(r) followed by insert_subtree of the returned record, with
\* the tree left alone, leaves the direct and subtree sets of every node, as
\* read through the log, as they were.
C37_DetachAttachRoundTrip ==
    \A r \in Nodes :
        (\A a \in Nodes :
            LogReaches(log, tree, r, a, MaxNode) =>
                NodeSetIndexLog_subtree_items(nsiLog, nsi, r) \subseteq
                    NodeSetIndexLog_subtree_items(nsiLog, nsi, a))
        => \A after \in {RoundTrip(r)} : \A n \in Nodes :
              /\ NodeSetIndexLog_direct_items(after, nsi, n)
                    = NodeSetIndexLog_direct_items(nsiLog, nsi, n)
              /\ NodeSetIndexLog_subtree_items(after, nsi, n)
                    = NodeSetIndexLog_subtree_items(nsiLog, nsi, n)

\* C37 witness: r has a descendant and an ancestor, the base and the log
\* both hold entries of the region that differ, the ancestors include
\* subtree[r], and the round trip has something to restore.
C37_Witness ==
    \E r \in Nodes :
        /\ TreeLog_descendants(log, tree, r) # {}
        /\ TreeLog_parent(log, tree, r) # None
        /\ \A a \in Nodes :
              LogReaches(log, tree, r, a, MaxNode) =>
                  NodeSetIndexLog_subtree_items(nsiLog, nsi, r) \subseteq
                      NodeSetIndexLog_subtree_items(nsiLog, nsi, a)
        /\ nsi.subtree_items[r] # None
        /\ nsiLog.subtree_items[r] \notin {None, nsi.subtree_items[r]}
        /\ NodeSetIndexLog_remove_subtree(nsiLog, nsi, tree, log, r).log # nsiLog

\* C38: applying the same log a second time, to the base it was just applied
\* to, returns false and leaves the base as it is, for OneIndex,
\* FlatSetIndex, Tree and NodeSetIndex; reading through the applied log over
\* the new base gives what the new base gives.
C38_SecondApplyChangesNothing ==
    /\ \A first \in {OneIndex_apply(one, oneLog).index} :
       \A second \in {OneIndex_apply(first, oneLog)} :
          /\ ~second.changed /\ second.index = first
          /\ \A k \in Keys : OneIndexLog_get(oneLog, first, k) = OneIndex_get(first, k)
    /\ \A first \in {FlatSetIndex_apply(flat, flatLog).index} :
       \A second \in {FlatSetIndex_apply(first, flatLog)} :
          /\ ~second.changed /\ second.index = first
          /\ \A k \in Keys :
                FlatSetIndexLog_get(flatLog, first, k) = FlatSetIndex_get(first, k)
          /\ FlatSetIndexLog_none(flatLog, first) = FlatSetIndex_none(first)
    /\ \A first \in {Tree_apply(tree, log).tree} :
       \A second \in {Tree_apply(first, log)} :
          /\ ~second.changed /\ second.tree = first
          /\ \A n \in Nodes :
                /\ TreeLog_parent(log, first, n) = Tree_parent(first, n)
                /\ TreeLog_children(log, first, n) = Tree_children(first, n)
                /\ TreeLog_descendants(log, first, n) = Tree_descendants(first, n)
                /\ TreeLog_has_cycle(log, first, n) = Tree_has_cycle(first, n)
    /\ \A first \in {NodeSetIndex_apply(nsi, nsiLog).index} :
       \A second \in {NodeSetIndex_apply(first, nsiLog)} :
          /\ ~second.changed /\ second.index = first
          /\ \A n \in Nodes :
                /\ NodeSetIndexLog_direct_items(nsiLog, first, n)
                      = NodeSetIndex_direct_items(first, n)
                /\ NodeSetIndexLog_subtree_items(nsiLog, first, n)
                      = NodeSetIndex_subtree_items(first, n)

\* C38 witness: a Tree log whose first apply changes the base: it overrides
\* a parent the base holds, empties a children set the base holds and sets
\* a cycle mark.
C38_Witness ==
    /\ Tree_apply(tree, log).changed
    /\ \E n \in Nodes :
          tree.parents[n] # None /\ log.parents[n] \notin {None, Some(tree.parents[n])}
    /\ \E n \in Nodes : tree.children[n] # None /\ log.children[n] = Some({})
    /\ log.cycles \notin {None, Some(tree.cycles)}

(***************************************************************************)
(* Tree::from_iter: the pairs of the iterator are written into the parents *)
(* map of a fresh log, which is then applied to a fresh Tree.              *)
(***************************************************************************)

\* the loop body of from_iter: log.parents.insert(child, parent)
from_iter_insert(l, child, parent) == [l EXCEPT !.parents[child] = Some(parent)]

\* the end of from_iter: tree.apply(log) on Tree::new()
from_iter_collect(l) == Tree_apply(Tree_new, l).tree

FromIterNext(child, parent) ==
    /\ Step
    /\ log' = from_iter_insert(log, child, parent)
    /\ UNCHANGED <<tree, nsiVars, oneVars, flatVars>>

FromIterCollect ==
    /\ Step
    /\ tree' = from_iter_collect(log)
    /\ log' = TreeLog_new
    /\ UNCHANGED <<nsiVars, oneVars, flatVars>>

NextFromIter ==
    \/ \E child \in Nodes : \E parent \in ParentArgs : FromIterNext(child, parent)
    \/ FromIterCollect

SpecFromIter == InitTree /\ [][NextFromIter]_vars

\* C39: the Tree collected from the pairs consumed so far answers, for every
\* pair (c, Some(p)), parent(c) = Some(p), c in children(p), c in
\* descendants(p) and in descendants of every ancestor of p, and reports the
\* nodes on a cycle of the pairs by has_cycle.
C39_FromIterConsistent ==
    \A t \in {from_iter_collect(log)} :
        \A c \in Nodes : \A p \in Nodes :
            log.parents[c] = Some(Some(p)) =>
                /\ Tree_parent(t, c) = Some(p)
                /\ c \in Tree_children(t, p)
                /\ c \in Tree_descendants(t, p)
                /\ \A a \in Nodes :
                      TreeReaches(t, p, a, MaxNode) => c \in Tree_descendants(t, a)
                /\ TreeReaches(t, c, c, MaxNode) => Tree_has_cycle(t, c)

\* C40: the backing vector of a OneIndex is longer than its largest occupied
\* key (it has at least len slots and every occupied key is inside it);
\* during apply every Some override is written inside the resized vector;
\* and a log whose overrides are all None leaves the length of the vector
\* as it is, also for a key at or beyond that length.
C40_SlotAccessInBounds ==
    /\ OneIndex_len(one) <= Len(one.data)
    /\ \A k \in Keys : OneIndex_get(one, k) # None => k < Len(one.data)
    /\ IF \E k \in Keys : /\ oneLog[k] # None /\ Unwrap(oneLog[k]) # None
                           /\ k >= Len(apply_resize(one, oneLog))
       THEN FALSE
       ELSE \A post \in {OneIndex_apply(one, oneLog).index} :
              /\ Len(post.data) >= Len(one.data)
              /\ OneIndex_len(post) <= Len(post.data)
              /\ (\A k \in Keys : oneLog[k] \in {None, Some(None)})
                    => Len(post.data) = Len(one.data)

\* C40 witness: the log holds a Some override beyond the end of the vector
\* of a non-empty base.
C40_Witness ==
    /\ Len(one.data) = 1 /\ OneIndex_get(one, 0) # None
    /\ oneLog[MaxKey] # None /\ Unwrap(oneLog[MaxKey]) # None

\* a None override at or beyond the end of the vector is reached as well
C40_WitnessNoneBeyond ==
    \E k \in Keys : k >= Len(one.data) /\ oneLog[k] = Some(None)

====
